---- MODULE Spec2Model ----
(***************************************************************************)
(* Model of the session console core of selfbot_voice.py (VoiceSelfClient): *)
(* the call lifecycle tracker (_call_history, _active_call_records), the    *)
(* notification slot (_active_notice) and the debug log (_debug_lines),     *)
(* driven by the call events on_call_create / on_call_update /              *)
(* on_call_delete and read by the render loop through _current_notice;      *)
(* the fuzzy menu (_curses_menu, _filter_menu_items), the recent targets    *)
(* (_remember_recent) and the quick-jump list (_ctui_quick_jump); the       *)
(* console (_ctui_main) with the coroutines it hands to the event loop, the *)
(* two background loops, and the render thread's reads of the notification  *)
(* slot interleaved with the event loop's writes; the log file that mirrors *)
(* the debug log (_append_log_line) and the feature probe                   *)
(* (_video_probe_event, _voice_ws_hook).                                    *)
(*                                                                         *)
(* Python's Optional values are sequences of length <= 1: None is << >>     *)
(* and a value x is <<x>>.  List indices stored in _active_call_records are *)
(* Python's (0-based): the record at Python index i is call_history[i + 1]. *)
(***************************************************************************)
EXTENDS Integers, Sequences, FiniteSets, TLC

VARIABLES
    args,                   \* self.args: the parsed command line (fixed per run)
    call_history,           \* self._call_history
    active_call_records,    \* self._active_call_records: channel id -> index
    active_notice,          \* self._active_notice
    debug_lines,            \* self._debug_lines
    appended,               \* every line handed to _dbg so far, in arrival order
    recent_targets,         \* self._recent_targets
    uses,                   \* the identity of every target remembered so far, in order
    menu,                   \* the locals of the running _curses_menu call
    jump,                   \* the target list the last _ctui_quick_jump call built
    created,                \* number of call records created so far (identity of the entry dicts)
    now,                    \* the clock read by time.monotonic() / datetime.now()
    ret,                    \* what the last _current_notice() call returned
    call_phase,             \* per channel, what the event feed has delivered for its
                            \* current call: "none", "rung" or "connected"
    events,                 \* number of call events delivered since Init
    video_loop_task,        \* self._video_loop_task
    fake_video_loop_task,   \* self._fake_video_loop_task
    tasks,                  \* the event loop's tasks made by asyncio.create_task
    log_file,               \* self._log_file, and the file it names
    video_probe_counts,     \* self._video_probe_counts
    video_probe_events,     \* self._video_probe_events
    probed,                 \* every line handed to _video_probe_event so far, in order
    console,                \* the console thread: the locals of _ctui_main and
                            \* the action it has handed to the event loop
    threads,                \* where the render thread stands in _current_notice
                            \* and the event loop in _handle_call_event
    voices                  \* the library's voice clients: how many were opened
                            \* and which are connected

vars == <<args, call_history, active_call_records, active_notice, debug_lines,
          appended, recent_targets, uses, menu, jump,
          created, now, ret, call_phase, events,
          video_loop_task, fake_video_loop_task, tasks,
          log_file, video_probe_counts, video_probe_events, probed,
          console, threads, voices>>

-----------------------------------------------------------------------------
(* Bounds of the model *)

MaxEvents == 3
MaxClock == 1

(* Program constants *)

HistoryCap == 100
DebugCap == 500
Me == 1

None == << >>
Some(x) == <<x>>
Min(a, b) == IF a < b THEN a ELSE b
Max(a, b) == IF a > b THEN a ELSE b

-----------------------------------------------------------------------------
(* The inputs: call objects as the library hands them to the handlers *)

Channels == {10, 20}
AgedChannel == 30

Recipient(c) == IF c = 10 THEN Some("X") ELSE IF c = 20 THEN Some("Y") ELSE None
Initiator(c) == IF c = 10 THEN Some("X") ELSE None

Call(c, ringing, connected) ==
    [channel_id |-> c, recipient |-> Recipient(c), initiator |-> Initiator(c),
     ringing |-> ringing, connected |-> connected]

RingingSets == {{}, {Me}}

Calls == {Call(c, r, k) : c \in Channels, r \in RingingSets, k \in BOOLEAN}

ArgsSet ==
    {[call_notify_persistent |-> FALSE, call_notify_seconds |-> 1, call_notify_cmd |-> FALSE],
     [call_notify_persistent |-> TRUE,  call_notify_seconds |-> 1, call_notify_cmd |-> FALSE],
     [call_notify_persistent |-> FALSE, call_notify_seconds |-> 0, call_notify_cmd |-> TRUE],
     [call_notify_persistent |-> FALSE, call_notify_seconds |-> -1, call_notify_cmd |-> FALSE]}

-----------------------------------------------------------------------------
(* The object's fields as one record, so that a handler is an operator from *)
(* the object before the call to the object after it.                       *)

\* No voice client has been opened yet.
NoVoices == [opened |-> 0, connected |-> {}]

\* No task has been created yet.  spawned counts the tasks created so far
\* (it numbers the Task objects); live holds those that still repeat.
NoTasks == [spawned |-> 0, live |-> {}]

\* The counters of the feature probe, all zero.
Counters ==
    {"voice_ws_op_2_ready", "voice_ws_op_11_clients_connect", "voice_ws_op_12_video",
     "voice_ws_op_13_client_disconnect", "voice_state_video_toggles",
     "voice_state_stream_toggles", "self_video_set_calls", "video_opcode_sent_calls",
     "fake_video_packet_sent_calls"}

NoCounts == [k \in Counters |-> 0]

Construct ==
    [call_history |-> << >>,
     active_call_records |-> << >>,
     active_notice |-> None,
     debug_lines |-> << >>,
     appended |-> << >>,
     recent_targets |-> << >>,
     uses |-> << >>,
     created |-> 0,
     video_loop_task |-> None,
     fake_video_loop_task |-> None,
     tasks |-> NoTasks,
     log_file |-> None,
     video_probe_counts |-> NoCounts,
     video_probe_events |-> << >>,
     probed |-> << >>]

Self ==
    [call_history |-> call_history,
     active_call_records |-> active_call_records,
     active_notice |-> active_notice,
     debug_lines |-> debug_lines,
     appended |-> appended,
     recent_targets |-> recent_targets,
     uses |-> uses,
     created |-> created,
     video_loop_task |-> video_loop_task,
     fake_video_loop_task |-> fake_video_loop_task,
     tasks |-> tasks,
     log_file |-> log_file,
     video_probe_counts |-> video_probe_counts,
     video_probe_events |-> video_probe_events,
     probed |-> probed]

Holds(s) ==
    /\ call_history = s.call_history
    /\ active_call_records = s.active_call_records
    /\ active_notice = s.active_notice
    /\ debug_lines = s.debug_lines
    /\ appended = s.appended
    /\ recent_targets = s.recent_targets
    /\ uses = s.uses
    /\ created = s.created
    /\ video_loop_task = s.video_loop_task
    /\ fake_video_loop_task = s.fake_video_loop_task
    /\ tasks = s.tasks
    /\ log_file = s.log_file
    /\ video_probe_counts = s.video_probe_counts
    /\ video_probe_events = s.video_probe_events
    /\ probed = s.probed

Commit(s) ==
    /\ call_history' = s.call_history
    /\ active_call_records' = s.active_call_records
    /\ active_notice' = s.active_notice
    /\ debug_lines' = s.debug_lines
    /\ appended' = s.appended
    /\ recent_targets' = s.recent_targets
    /\ uses' = s.uses
    /\ created' = s.created
    /\ video_loop_task' = s.video_loop_task
    /\ fake_video_loop_task' = s.fake_video_loop_task
    /\ tasks' = s.tasks
    /\ log_file' = s.log_file
    /\ video_probe_counts' = s.video_probe_counts
    /\ video_probe_events' = s.video_probe_events
    /\ probed' = s.probed

-----------------------------------------------------------------------------
(* The debug log *)

\* self._debug_lines[-500:] taken of a list longer than 500 lines.
KeepNewest_oldest(lines) == SubSeq(lines, 1, DebugCap)

KeepNewest(lines) == SubSeq(lines, Len(lines) - DebugCap + 1, Len(lines))

\* The file a configured --log-file names: whether open(..., "a") and the
\* write succeed on it now, and the lines written to it so far.
LogFile(writable, lines) == Some([writable |-> writable, lines |-> lines])

\* Mutant: the write is not guarded by try/except.
_append_log_line_unguarded(s, line) ==
    IF s.log_file = None THEN [self |-> s, raised |-> FALSE]
    ELSE IF s.log_file[1].writable
         THEN [self |-> [s EXCEPT !.log_file = LogFile(TRUE, Append(@[1].lines, line))],
               raised |-> FALSE]
         ELSE [self |-> s, raised |-> TRUE]

\* The object and the file after the call, and whether the call raised.
_append_log_line(s, line) ==
    IF s.log_file = None THEN [self |-> s, raised |-> FALSE]
    ELSE IF s.log_file[1].writable
         THEN [self |-> [s EXCEPT !.log_file = LogFile(TRUE, Append(@[1].lines, line))],
               raised |-> FALSE]
         ELSE [self |-> s, raised |-> FALSE]

\* A call of _dbg: the object after it, and whether it raised.
DbgCall(s, t, msg) ==
    LET lines == Append(s.debug_lines, msg)
        buffered == [s EXCEPT !.debug_lines = IF Len(lines) > DebugCap
                                              THEN KeepNewest(lines) ELSE lines,
                              !.appended = Append(@, msg)]
    IN  _append_log_line(buffered, msg)

_dbg(s, t, msg) == DbgCall(s, t, msg).self

-----------------------------------------------------------------------------
(* The feature probe: nine counters and a log of its own.  A probe line is  *)
(* the tuple of what the code formats into it.                              *)

ProbeCap == 120

\* Mutant: the oldest lines are kept.
KeepNewestProbes_oldest(lines) == SubSeq(lines, 1, ProbeCap)

\* self._video_probe_events[-120:] taken of a list longer than 120 lines.
KeepNewestProbes(lines) == SubSeq(lines, Len(lines) - ProbeCap + 1, Len(lines))

_video_probe_event(s, t, msg) ==
    LET lines == Append(s.video_probe_events, msg)
    IN  [s EXCEPT !.video_probe_events = IF Len(lines) > ProbeCap
                                         THEN KeepNewestProbes(lines) ELSE lines,
                  !.probed = Append(@, msg)]

\* self._video_probe_counts[key] += 1
Count(s, key) == [s EXCEPT !.video_probe_counts[key] = @ + 1]

\* The opcodes a voice websocket message can carry here: READY (2), an opcode
\* the hook has no branch for (4), SPEAKING (5), CLIENTS_CONNECT (11),
\* VIDEO (12), CLIENT_DISCONNECT (13).
WsOps == {2, 4, 5, 11, 12, 13}

\* _voice_ws_hook.  The opcodes 5 and 13 go on to _speaking_activity (not in
\* the model) by int(raw_uid), which raises on a malformed user id; the
\* except clause then logs the error.
_voice_ws_hook(s, op, t, raises) ==
    LET counted == IF op = 2 THEN Count(s, "voice_ws_op_2_ready")
                   ELSE IF op = 11 THEN Count(s, "voice_ws_op_11_clients_connect")
                   ELSE IF op = 12 THEN Count(s, "voice_ws_op_12_video")
                   ELSE IF op = 13 THEN Count(s, "voice_ws_op_13_client_disconnect")
                   ELSE s
        logged == IF op \in {2, 11, 12, 13}
                  THEN _video_probe_event(_dbg(counted, t, <<"voice ws", op>>), t,
                                          <<"voice_ws", op>>)
                  ELSE counted
    IN  IF op \in {5, 13} /\ raises
        THEN _dbg(logged, t, <<"voice ws hook error">>)
        ELSE logged

\* on_voice_state_update, for a member whose self_video and self_stream
\* flags did or did not change.
on_voice_state_update(s, video_changed, stream_changed, t) ==
    LET s1 == IF video_changed
              THEN _video_probe_event(
                       _dbg(Count(s, "voice_state_video_toggles"), t, <<"voice_state video">>),
                       t, <<"voice_state video">>)
              ELSE s
    IN  IF stream_changed
        THEN _video_probe_event(
                 _dbg(Count(s1, "voice_state_stream_toggles"), t, <<"voice_state stream">>),
                 t, <<"voice_state stream">>)
        ELSE s1

\* _apply_self_video_flag once ws.voice_state has returned.
_apply_self_video_flag(s, t) ==
    _video_probe_event(_dbg(Count(s, "self_video_set_calls"), t, <<"exp self_video set">>),
                       t, <<"set self_video">>)

\* _exp_send_video_opcode once ws.client_connect has returned.
_exp_send_video_opcode(s, t) ==
    _video_probe_event(_dbg(Count(s, "video_opcode_sent_calls"), t, <<"exp VIDEO opcode sent">>),
                       t, <<"sent VOICE VIDEO opcode">>)

\* _exp_send_fake_video_packet once conn.send_packet has returned (the RTP
\* sequence number and timestamp it advances are not in the model).
_exp_send_fake_video_packet(s, t) ==
    _video_probe_event(
        _dbg(Count(s, "fake_video_packet_sent_calls"), t, <<"exp fake video RTP sent">>),
        t, <<"sent fake video RTP">>)

-----------------------------------------------------------------------------
(* The notification slot *)

\* Mutant: a stored notification is kept and the new one dropped.
_push_notice_keep_stored(s, a, t, message) ==
    IF s.active_notice # None
    THEN s
    ELSE [s EXCEPT !.active_notice =
            Some([message |-> message,
                  expires_at |-> IF a.call_notify_persistent THEN None
                                 ELSE Some(t + Max(0, a.call_notify_seconds))])]

\* Mutant: the duration is not clamped at zero.
_push_notice_unclamped(s, a, t, message) ==
    [s EXCEPT !.active_notice =
        Some([message |-> message,
              expires_at |-> IF a.call_notify_persistent THEN None
                             ELSE Some(t + a.call_notify_seconds)])]

\* Mutant: a persistent notification is given an expiry like any other.
_push_notice_ignores_persistent(s, a, t, message) ==
    [s EXCEPT !.active_notice =
        Some([message |-> message,
              expires_at |-> Some(t + Max(0, a.call_notify_seconds))])]

_push_notice(s, a, t, message) ==
    LET persistent == a.call_notify_persistent
        seconds == Max(0, a.call_notify_seconds)
        expires_at == IF persistent THEN None ELSE Some(t + seconds)
    IN  [s EXCEPT !.active_notice = Some([message |-> message, expires_at |-> expires_at])]

\* Mutant: the notification expires at its expiry instant (>= for >).
_current_notice_expires_early(s, t) ==
    IF s.active_notice = None
    THEN [self |-> s, ret |-> None]
    ELSE LET exp == s.active_notice[1].expires_at
         IN  IF exp # None /\ t >= exp[1]
             THEN [self |-> [s EXCEPT !.active_notice = None], ret |-> None]
             ELSE [self |-> s, ret |-> Some(s.active_notice[1].message)]

\* The object after the call, and the value returned.
_current_notice(s, t) ==
    IF s.active_notice = None
    THEN [self |-> s, ret |-> None]
    ELSE LET exp == s.active_notice[1].expires_at
         IN  IF exp # None /\ t > exp[1]
             THEN [self |-> [s EXCEPT !.active_notice = None], ret |-> None]
             ELSE [self |-> s, ret |-> Some(s.active_notice[1].message)]

-----------------------------------------------------------------------------
(* The call lifecycle tracker *)

_is_ringing_me(call) == \E u \in call.ringing : u = Me

_is_connected_me(call) == call.connected

\* Mutant: the indices are not shifted.
ShiftActiveIndices_none(records) == records

\* for key in list(records.keys()): records[key] = int(records[key]) + 1
ShiftActiveIndices(records) ==
    [key \in DOMAIN records |-> records[key] + 1]

\* Mutant: the slice keeps the tail, history[-100:], dropping the newest record.
InsertAndTruncate_keep_tail(history, entry) ==
    LET inserted == <<entry>> \o history
    IN  SubSeq(inserted, Max(1, Len(inserted) - HistoryCap + 1), Len(inserted))

\* history.insert(0, entry); history = history[:100]
InsertAndTruncate(history, entry) ==
    LET inserted == <<entry>> \o history
    IN  SubSeq(inserted, 1, Min(Len(inserted), HistoryCap))

\* Mutant: no index is dropped.
DropStaleIndices_none(records, max_idx) == records

\* for key, idx in list(records.items()): if idx > max_idx: records.pop(key, None)
DropStaleIndices(records, max_idx) ==
    [key \in {k \in DOMAIN records : ~(records[k] > max_idx)} |-> records[key]]

\* records[channel_id] = 0
SetIndex(records, channel_id, idx) ==
    [key \in DOMAIN records \cup {channel_id} |->
        IF key = channel_id THEN idx ELSE records[key]]

\* The field "id" is the identity of the entry dict (the n-th record created);
\* the wall-clock string "ts" is written here and read by no operation.
_record_incoming_call(s, call, from_label, peer_label) ==
    LET channel_id == call.channel_id
        entry == [channel_id |-> channel_id, peer |-> peer_label,
                  from |-> from_label, status |-> "ringing",
                  answered |-> FALSE, missed |-> FALSE, id |-> s.created + 1]
        shifted == ShiftActiveIndices(s.active_call_records)
        history == InsertAndTruncate(s.call_history, entry)
        max_idx == Len(history) - 1
        kept == DropStaleIndices(shifted, max_idx)
    IN  [s EXCEPT !.call_history = history,
                  !.active_call_records = SetIndex(kept, channel_id, 0),
                  !.created = @ + 1]

\* Mutant: a missing channel is looked up as index 0, records.get(channel_id, 0).
LookupIndex_default_zero(records, channel_id) ==
    IF channel_id \in DOMAIN records THEN Some(records[channel_id]) ELSE Some(0)

\* records.get(channel_id): the index, or None
LookupIndex(records, channel_id) ==
    IF channel_id \in DOMAIN records THEN Some(records[channel_id]) ELSE None

\* Mutant: the entry is read and left in the map, records.get for records.pop.
PopIndex_keep(records, channel_id) == records

\* records.pop(channel_id, None): the map without the channel
PopIndex(records, channel_id) ==
    [key \in DOMAIN records \ {channel_id} |-> records[key]]

\* Mutant: the answered flag is not consulted.
FinalizeEntry_always_missed(entry) ==
    [entry EXCEPT !.status = "missed", !.missed = TRUE]

\* if entry.get("answered"): status = "ended"  else: status = "missed"; missed = True
FinalizeEntry(entry) ==
    IF entry.answered
    THEN [entry EXCEPT !.status = "ended"]
    ELSE [entry EXCEPT !.status = "missed", !.missed = TRUE]

\* the else branch of  if entry.get("answered"):  pushes the missed-call notice
AnnounceMissed(entry) == ~entry.answered

\* Mutant: answering a call is announced in the notification slot.
_mark_call_answered_notifies(s, call, t) ==
    LET channel_id == call.channel_id
        idx == LookupIndex(s.active_call_records, channel_id)
    IN  IF idx = None
        THEN s
        ELSE IF idx[1] < 0 \/ idx[1] >= Len(s.call_history)
        THEN s
        ELSE LET marked ==
                     [s EXCEPT !.call_history[idx[1] + 1].answered = TRUE,
                               !.call_history[idx[1] + 1].status = "answered",
                               !.call_history[idx[1] + 1].missed = FALSE,
                               !.active_notice = Some([message |-> <<"Call answered">>,
                                                       expires_at |-> None])]
             IN  _dbg(marked, t,
                      <<"call answered", s.call_history[idx[1] + 1].peer, channel_id>>)

\* Mutant: the newest record is marked, not the one the index entry refers to.
_mark_call_answered_newest(s, call, t) ==
    LET channel_id == call.channel_id
        idx == LookupIndex(s.active_call_records, channel_id)
    IN  IF idx = None
        THEN s
        ELSE IF idx[1] < 0 \/ idx[1] >= Len(s.call_history)
        THEN s
        ELSE LET marked ==
                     [s EXCEPT !.call_history[1].answered = TRUE,
                               !.call_history[1].status = "answered",
                               !.call_history[1].missed = FALSE]
             IN  _dbg(marked, t,
                      <<"call answered", s.call_history[idx[1] + 1].peer, channel_id>>)

_mark_call_answered(s, call, t) ==
    LET channel_id == call.channel_id
        idx == LookupIndex(s.active_call_records, channel_id)
    IN  IF idx = None
        THEN s
        ELSE IF idx[1] < 0 \/ idx[1] >= Len(s.call_history)
        THEN s
        ELSE LET marked ==
                     [s EXCEPT !.call_history[idx[1] + 1].answered = TRUE,
                               !.call_history[idx[1] + 1].status = "answered",
                               !.call_history[idx[1] + 1].missed = FALSE]
             IN  _dbg(marked, t,
                      <<"call answered", s.call_history[idx[1] + 1].peer, channel_id>>)

\* The entry is popped only once the index has passed the bounds check.
_finalize_call_pop_late(s, call, a, t) ==
    LET channel_id == call.channel_id
        idx == LookupIndex(s.active_call_records, channel_id)
        popped == [s EXCEPT !.active_call_records = PopIndex(@, channel_id)]
    IN  IF idx = None \/ idx[1] < 0 \/ idx[1] >= Len(s.call_history)
        THEN s
        ELSE LET entry == s.call_history[idx[1] + 1]
                 final == [popped EXCEPT !.call_history[idx[1] + 1] = FinalizeEntry(entry)]
                 noticed == IF AnnounceMissed(entry)
                            THEN _push_notice(final, a, t, <<"Missed call", entry.peer>>)
                            ELSE final
             IN  _dbg(noticed, t,
                      <<"call finalized", final.call_history[idx[1] + 1].status, channel_id>>)

_finalize_call(s, call, a, t) ==
    LET channel_id == call.channel_id
        idx == LookupIndex(s.active_call_records, channel_id)
        popped == [s EXCEPT !.active_call_records = PopIndex(@, channel_id)]
    IN  IF idx = None \/ idx[1] < 0 \/ idx[1] >= Len(s.call_history)
        THEN popped
        ELSE LET entry == s.call_history[idx[1] + 1]
                 final == [popped EXCEPT !.call_history[idx[1] + 1] = FinalizeEntry(entry)]
                 noticed == IF AnnounceMissed(entry)
                            THEN _push_notice(final, a, t, <<"Missed call", entry.peer>>)
                            ELSE final
             IN  _dbg(noticed, t,
                      <<"call finalized", final.call_history[idx[1] + 1].status, channel_id>>)

_missed_call_entries(s) == SelectSeq(s.call_history, LAMBDA e : e.missed)

_emit_call_sound(s, a, t, popen_raises) ==
    IF a.call_notify_cmd /\ popen_raises
    THEN _dbg(s, t, <<"call notify cmd failed">>)
    ELSE s

\* str(peer) if peer is not None else f"channel:{id}"
PeerLabel(call) ==
    IF call.recipient # None THEN call.recipient[1] ELSE <<"channel", call.channel_id>>

\* str(initiator) if initiator is not None else "unknown"
FromLabel(call) == IF call.initiator # None THEN call.initiator[1] ELSE "unknown"

\* f"Incoming call from {from_label} in DM:{peer_label}"
IncomingMsg(call) == <<"Incoming call", FromLabel(call), PeerLabel(call)>>

_handle_call_event(s, call, event_name, a, t, popen_raises) ==
    IF ~_is_ringing_me(call)
    THEN s
    ELSE LET peer_label == PeerLabel(call)
             from_label == FromLabel(call)
             msg == IncomingMsg(call)
             s1 == _record_incoming_call(s, call, from_label, peer_label)
             s2 == _push_notice(s1, a, t, msg)
             s3 == _emit_call_sound(s2, a, t, popen_raises)
         IN  _dbg(s3, t, <<"call", event_name, msg>>)

on_call_create(s, call, a, t, popen_raises) ==
    _handle_call_event(s, call, "create", a, t, popen_raises)

\* Mutant: the levels are tested, not their rise.
on_call_update_level(s, old_call, call, a, t, popen_raises) ==
    LET s1 == IF _is_ringing_me(call)
              THEN _handle_call_event(s, call, "incoming", a, t, popen_raises)
              ELSE s
    IN  IF _is_connected_me(call) THEN _mark_call_answered(s1, call, t) ELSE s1

on_call_update(s, old_call, call, a, t, popen_raises) ==
    LET was_ringing == _is_ringing_me(old_call)
        now_ringing == _is_ringing_me(call)
        s1 == IF now_ringing /\ ~was_ringing
              THEN _handle_call_event(s, call, "incoming", a, t, popen_raises)
              ELSE s
    IN  IF _is_connected_me(call) /\ ~_is_connected_me(old_call)
        THEN _mark_call_answered(s1, call, t)
        ELSE s1

on_call_delete(s, call, a, t) ==
    _dbg(_finalize_call(s, call, a, t), t, <<"call ended", call.channel_id>>)

-----------------------------------------------------------------------------
(* The event feed's own view of each channel's call, kept beside the       *)
(* program's state: a call exists from its Created event, or from the first *)
(* ring naming this operator, until its Deleted event; it is "rung" once it *)
(* rang this operator and "connected" once a ConnectedToMe event arrived    *)
(* after that ring.  It is what the statements about "a call that receives  *)
(* ..." speak of; no handler reads it.                                      *)

PhaseAfterRing(p) == IF p = "none" THEN "rung" ELSE p
PhaseAfterConnect(p) == IF p = "none" THEN "none" ELSE "connected"

\* Created opens a new call.
PhaseOnCreate(phase, call) ==
    [phase EXCEPT ![call.channel_id] = IF _is_ringing_me(call) THEN "rung" ELSE "none"]

PhaseOnUpdate(phase, old_call, call) ==
    LET p1 == IF _is_ringing_me(call) /\ ~_is_ringing_me(old_call)
              THEN [phase EXCEPT ![call.channel_id] = PhaseAfterRing(@)]
              ELSE phase
    IN  IF _is_connected_me(call) /\ ~_is_connected_me(old_call)
        THEN [p1 EXCEPT ![call.channel_id] = PhaseAfterConnect(@)]
        ELSE p1

PhaseOnDelete(phase, call) == [phase EXCEPT ![call.channel_id] = "none"]

-----------------------------------------------------------------------------
(* A state of long use: the object after a first call on channel 10 that is *)
(* still ringing and HistoryCap - 3 later calls on another channel, each    *)
(* rung, answered and ended.  It is computed by running the handlers.       *)

Apply(s, e, a, t) ==
    IF e.op = "create" THEN on_call_create(s, e.call, a, t, FALSE)
    ELSE IF e.op = "update" THEN on_call_update(s, e.old_call, e.call, a, t, FALSE)
    ELSE on_call_delete(s, e.call, a, t)

\* The object after the events evs[lo], ..., evs[hi] are delivered in order.
RECURSIVE ReplayRange(_, _, _, _, _, _)
ReplayRange(s, evs, lo, hi, a, t) ==
    IF lo > hi THEN s
    ELSE IF lo = hi THEN Apply(s, evs[lo], a, t)
    ELSE LET mid == (lo + hi) \div 2
             half == ReplayRange(s, evs, lo, mid, a, t)
         IN  \* the test only makes the first half be computed before the second
             IF half.created >= 0
             THEN ReplayRange(half, evs, mid + 1, hi, a, t)
             ELSE half

Replay(s, evs, a, t) == ReplayRange(s, evs, 1, Len(evs), a, t)

Create(call) == [op |-> "create", call |-> call, old_call |-> call]
Update(old_call, call) == [op |-> "update", call |-> call, old_call |-> old_call]
Delete(call) == [op |-> "delete", call |-> call, old_call |-> call]

CallCycle(c) ==
    <<Create(Call(c, {Me}, FALSE)),
      Update(Call(c, {}, FALSE), Call(c, {}, TRUE)),
      Delete(Call(c, {}, TRUE))>>

Cycles(c, n) == [i \in 1..(3 * n) |-> CallCycle(c)[((i - 1) % 3) + 1]]

AgedArgs ==
    [call_notify_persistent |-> FALSE, call_notify_seconds |-> 1, call_notify_cmd |-> FALSE]

AgedEvents == <<Create(Call(10, {Me}, FALSE))>> \o Cycles(AgedChannel, HistoryCap - 3)

Aged == Replay(Construct, AgedEvents, AgedArgs, 0)

-----------------------------------------------------------------------------
(* The state machine *)

Init ==
    /\ args \in ArgsSet
    /\ Holds(Construct)
    /\ now = 0
    /\ ret = None
    /\ call_phase = [c \in Channels |-> "none"]
    /\ events = 0
    /\ menu = None
    /\ jump = None
    /\ console = None
    /\ voices = NoVoices
    /\ threads = None

InitAged ==
    /\ args = AgedArgs
    /\ Holds(Aged)
    /\ now = 0
    /\ ret = None
    /\ call_phase = [c \in Channels |-> IF c = 10 THEN "rung" ELSE "none"]
    /\ events = 0
    /\ menu = None
    /\ jump = None
    /\ console = None
    /\ voices = NoVoices
    /\ threads = None

Created(call, popen_raises) ==
    /\ events < MaxEvents
    /\ Commit(on_call_create(Self, call, args, now, popen_raises))
    /\ call_phase' = PhaseOnCreate(call_phase, call)
    /\ events' = events + 1
    /\ UNCHANGED <<args, now, ret, menu, jump, console, threads, voices>>

OnCallCreate == \E call \in Calls, popen_raises \in BOOLEAN : Created(call, popen_raises)

Updated(old_call, call, popen_raises) ==
    /\ old_call.channel_id = call.channel_id
    /\ events < MaxEvents
    /\ Commit(on_call_update(Self, old_call, call, args, now, popen_raises))
    /\ call_phase' = PhaseOnUpdate(call_phase, old_call, call)
    /\ events' = events + 1
    /\ UNCHANGED <<args, now, ret, menu, jump, console, threads, voices>>

OnCallUpdate ==
    \E old_call \in Calls, call \in Calls, popen_raises \in BOOLEAN :
        Updated(old_call, call, popen_raises)

Deleted(call) ==
    /\ events < MaxEvents
    /\ Commit(on_call_delete(Self, call, args, now))
    /\ call_phase' = PhaseOnDelete(call_phase, call)
    /\ events' = events + 1
    /\ UNCHANGED <<args, now, ret, menu, jump, console, threads, voices>>

OnCallDelete == \E call \in Calls : Deleted(call)

\* The render loop's read of the banner (_curses_menu).
CurrentNotice ==
    LET r == _current_notice(Self, now)
    IN  /\ Commit(r.self)
        /\ ret' = r.ret
        /\ UNCHANGED <<args, now, call_phase, events, menu, jump, console, threads, voices>>

\* Time passes.
Tick ==
    /\ now < MaxClock
    /\ now' = now + 1
    /\ UNCHANGED <<args, call_history, active_call_records, active_notice,
                   debug_lines, appended, recent_targets, uses, menu, jump,
                   created, ret, call_phase, events,
                   video_loop_task, fake_video_loop_task, tasks,
          log_file, video_probe_counts, video_probe_events, probed,
          console, threads, voices>>

Next ==
    \/ OnCallCreate
    \/ OnCallUpdate
    \/ OnCallDelete
    \/ CurrentNotice
    \/ Tick

Spec == Init /\ [][Next]_vars

\* The call events alone, from the state of long use.
NextCalls ==
    \/ OnCallCreate
    \/ OnCallUpdate
    \/ OnCallDelete

SpecAged == InitAged /\ [][NextCalls]_vars

TypeOK ==
    /\ args \in ArgsSet
    /\ now \in 0..MaxClock
    /\ events \in 0..MaxEvents
    /\ created \in Nat
    /\ Len(call_history) <= HistoryCap
    /\ Len(active_notice) <= 1
    /\ Len(ret) <= 1

-----------------------------------------------------------------------------
(* Properties of the call lifecycle tracker and the notification slot *)

\* A call event created a record in this step.
RecordInserted == created' = created + 1

\* This step finalized the record at position i as missed.
NewlyMissed(i) ==
    /\ created' = created
    /\ call_history[i].status # "missed"
    /\ call_history'[i].status = "missed"

\* C1: the call history never holds more than HistoryCap records; every record
\* created is inserted at the front, so the history holds the most recent
\* min(created, HistoryCap) records, newest first: once more records than the
\* capacity have been created its length is the capacity and the oldest are gone.
C1_HistoryKeepsMostRecent ==
    /\ Len(call_history) <= HistoryCap
    /\ Len(call_history) = Min(created, HistoryCap)
    /\ \A i \in 1..Len(call_history) : call_history[i].id = created - i + 1

C1_Overflowed == created > HistoryCap /\ Len(call_history) = HistoryCap

\* C2: no record is both missed and answered, and a missed record has status
\* "missed".
C2_MissedExcludesAnswered ==
    \A i \in 1..Len(call_history) :
        /\ ~(call_history[i].missed /\ call_history[i].answered)
        /\ call_history[i].missed => call_history[i].status = "missed"

C2_MissedAndAnsweredPresent ==
    /\ \E i \in 1..Len(call_history) : call_history[i].missed
    /\ \E i \in 1..Len(call_history) : call_history[i].answered

\* C3: a record's status changes only ringing -> answered, answered -> ended or
\* ringing -> missed, and a record that is ended or missed never changes again.
StatusSteps ==
    {<<"ringing", "answered">>, <<"answered", "ended">>, <<"ringing", "missed">>}

C3_StatusTransitions ==
    [][\A i \in 1..Len(call_history), j \in 1..Len(call_history') :
          call_history[i].id = call_history'[j].id =>
              IF call_history[i].status \in {"ended", "missed"}
              THEN call_history'[j] = call_history[i]
              ELSE \/ call_history'[j].status = call_history[i].status
                   \/ <<call_history[i].status, call_history'[j].status>> \in StatusSteps]_vars

C3_RecordEnded == \E i \in 1..Len(call_history) : call_history[i].status = "ended"

\* C4: when Deleted arrives for a call whose record is tracked, the record it
\* finalizes ends "ended" if the call received ConnectedToMe before, and ends
\* "missed" with missed = TRUE, and is among the missed entries, if it did not.
C4_ConnectedEndsElseMissed ==
    [][\A c \in Channels :
          (/\ \E call \in Calls : call.channel_id = c /\ Deleted(call)
           /\ c \in DOMAIN active_call_records) =>
              LET i == active_call_records[c] + 1
                  missed == _missed_call_entries(Self)'
              IN  /\ call_phase[c] = "connected" => call_history'[i].status = "ended"
                  /\ call_phase[c] = "rung" =>
                        /\ call_history'[i].status = "missed"
                        /\ call_history'[i].missed
                        /\ \E k \in 1..Len(missed) : missed[k] = call_history'[i]]_vars

\* C5: every entry of the active index points at the newest record of its
\* channel; an insertion at the front moves every other entry that still fits
\* by one, so that it keeps pointing at the same record; and the events
\* ring(10), ring(20), ConnectedToMe(10), Deleted(20) leave history[1] answered,
\* history[0] missed and the index {10: 1}.
IndexPointsAtNewest ==
    \A c \in DOMAIN active_call_records :
        LET i == active_call_records[c] + 1
        IN  /\ i \in 1..Len(call_history)
            /\ call_history[i].channel_id = c
            /\ \A j \in 1..(i - 1) : call_history[j].channel_id # c

InsertionShifts ==
    RecordInserted =>
        \A k \in DOMAIN active_call_records :
            (k # call_history'[1].channel_id /\ active_call_records[k] + 1 < Len(call_history')) =>
                /\ k \in DOMAIN active_call_records'
                /\ active_call_records'[k] = active_call_records[k] + 1
                /\ call_history'[active_call_records'[k] + 1].id =
                       call_history[active_call_records[k] + 1].id

ScenarioEvents ==
    <<Create(Call(10, {Me}, FALSE)),
      Update(Call(20, {}, FALSE), Call(20, {Me}, FALSE)),
      Update(Call(10, {}, FALSE), Call(10, {}, TRUE)),
      Delete(Call(20, {}, FALSE))>>

ScenarioResult ==
    LET s == Replay(Construct, ScenarioEvents, args, now)
    IN  /\ Len(s.call_history) = 2
        /\ s.call_history[2].status = "answered" /\ s.call_history[2].channel_id = 10
        /\ s.call_history[1].status = "missed" /\ s.call_history[1].missed
        /\ s.call_history[1].channel_id = 20
        /\ DOMAIN s.active_call_records = {10}
        /\ s.active_call_records[10] = 1

C5_IndexFollowsRecord ==
    /\ [](IndexPointsAtNewest /\ ScenarioResult)
    /\ [][InsertionShifts]_vars

C5_EntryShifted ==
    /\ 10 \in DOMAIN active_call_records
    /\ active_call_records[10] = 1
    /\ call_history[1].channel_id = 20

\* C6: every value of the active index is a valid index into the history.
C6_IndicesValid ==
    \A c \in DOMAIN active_call_records :
        0 <= active_call_records[c] /\ active_call_records[c] < Len(call_history)

\* The call on channel 10 is still in progress and its entry is gone: its
\* record was pushed past the capacity.
C6_EntryAgedOut ==
    /\ created > HistoryCap
    /\ call_phase[10] = "rung"
    /\ 10 \notin DOMAIN active_call_records

\* C7: a ConnectedToMe or Deleted event for a channel with no entry in the
\* active index leaves the history, the index and the notification unchanged.
SameTracker(s) ==
    /\ s.call_history = call_history
    /\ s.active_call_records = active_call_records
    /\ s.active_notice = active_notice

C7_UntrackedEventsIgnored ==
    \A call \in Calls :
        call.channel_id \notin DOMAIN active_call_records =>
            /\ SameTracker(on_call_delete(Self, call, args, now))
            /\ SameTracker(_mark_call_answered(Self, call, now))
            /\ \A old_call \in Calls, popen_raises \in BOOLEAN :
                  (/\ old_call.channel_id = call.channel_id
                   /\ ~(_is_ringing_me(call) /\ ~_is_ringing_me(old_call))) =>
                      SameTracker(on_call_update(Self, old_call, call, args, now, popen_raises))

\* A Deleted event arrived before any call rang.
C7_DeletedBeforeAnyRing ==
    /\ created = 0
    /\ \E i \in 1..Len(debug_lines) : debug_lines[i][1] = "call ended"

\* C8: one notification at most is stored, and a push replaces whatever was
\* stored: after a step that pushes m the stored message is m.
C8_PushReplaces ==
    /\ [](Len(active_notice) <= 1)
    /\ [][/\ RecordInserted =>
                /\ active_notice' # None
                /\ active_notice'[1].message =
                       <<"Incoming call", call_history'[1].from, call_history'[1].peer>>
          /\ \A i \in 1..Len(call_history) :
                NewlyMissed(i) =>
                    /\ active_notice' # None
                    /\ active_notice'[1].message = <<"Missed call", call_history[i].peer>>]_vars

\* A persistent incoming-call notification was replaced by a missed-call one.
C8_PersistentReplaced ==
    /\ args.call_notify_persistent
    /\ active_notice # None
    /\ active_notice[1].message[1] = "Missed call"

\* C9: a read returns the message of a non-persistent notification while
\* now <= expires_at; the first read with now > expires_at clears it and
\* returns none; a read finding nothing stored returns none; the slot is
\* filled again only by a push.
C9_LazyExpiry ==
    [][/\ CurrentNotice =>
            IF active_notice = None
            THEN ret' = None /\ active_notice' = None
            ELSE LET n == active_notice[1]
                 IN  n.expires_at # None =>
                        IF now <= n.expires_at[1]
                        THEN ret' = Some(n.message) /\ active_notice' = active_notice
                        ELSE ret' = None /\ active_notice' = None
       /\ (active_notice = None /\ active_notice' # None) =>
            (RecordInserted \/ \E i \in 1..Len(call_history) : NewlyMissed(i))]_vars

\* An expired notification was cleared by a read.
C9_ClearedByRead ==
    /\ ~args.call_notify_persistent
    /\ created > 0
    /\ active_notice = None
    /\ ret = None

\* C10: with persistent = false and duration 0 a push stores expires_at = now,
\* so a read at the instant of the push still returns the message and every
\* read at a later instant returns none and clears the notification.
ZeroDuration ==
    ~args.call_notify_persistent /\ Max(0, args.call_notify_seconds) = 0

PushStep == RecordInserted \/ \E i \in 1..Len(call_history) : NewlyMissed(i)

C10_ZeroDurationExpiresOnceTimePasses ==
    [][ZeroDuration =>
          /\ PushStep => active_notice' # None /\ active_notice'[1].expires_at = Some(now)
          /\ (CurrentNotice /\ active_notice # None) =>
                IF now > active_notice[1].expires_at[1]
                THEN ret' = None /\ active_notice' = None
                ELSE ret' = Some(active_notice[1].message)]_vars

\* C10 as stated: a read that finds a duration-0 notification stored returns
\* none.  (Were the first read after a push always none, it would clear the
\* notification, and every read finding one stored would be a first read.)
C10_ZeroDurationGoneAtNextRead ==
    [][(/\ ~args.call_notify_persistent
        /\ args.call_notify_seconds = 0
        /\ CurrentNotice
        /\ active_notice # None) => ret' = None]_vars

\* A duration-0 notification was read after the clock advanced, and is gone.
C10_ExpiredAtLaterRead ==
    /\ ZeroDuration
    /\ created > 0
    /\ now > 0
    /\ active_notice = None
    /\ ret = None

-----------------------------------------------------------------------------
(* The debug log after long use *)

MaxLines == 5

LogMsgs == {<<"a">>, <<"b">>}

OldLine(i) == <<"old", i>>

\* The object after _dbg was called with the lines OldLine(lo) .. OldLine(hi).
RECURSIVE LoggedRange(_, _, _)
LoggedRange(s, lo, hi) ==
    IF lo > hi THEN s
    ELSE IF lo = hi THEN _dbg(s, 0, OldLine(lo))
    ELSE LET mid == (lo + hi) \div 2
             half == LoggedRange(s, lo, mid)
         IN  IF half.created >= 0 THEN LoggedRange(half, mid + 1, hi) ELSE half

LogAged == LoggedRange(Construct, 1, DebugCap - 2)

\* --log-file: not given; given and writable; given and not writable
\* (a directory, a read-only file, a full disk).
LogFiles == {None, LogFile(TRUE, << >>), LogFile(FALSE, << >>)}

\* The same long use with the given log file configured from the start.
LogAgedTo(file) == LoggedRange([Construct EXCEPT !.log_file = file], 1, DebugCap - 2)

InitLog ==
    /\ args = AgedArgs
    /\ \E file \in LogFiles : Holds(LogAgedTo(file))
    /\ now = 0
    /\ ret = None
    /\ call_phase = [c \in Channels |-> "none"]
    /\ events = 0
    /\ menu = None
    /\ jump = None
    /\ console = None
    /\ voices = NoVoices
    /\ threads = None

\* Any caller of _dbg.
Dbg ==
    \E msg \in LogMsgs :
        /\ Len(appended) < DebugCap + MaxLines
        /\ Commit(_dbg(Self, now, msg))
        /\ UNCHANGED <<args, now, ret, call_phase, events, menu, jump, console, threads, voices>>

\* The file system changes under the program: the configured file stops or
\* starts being writable.
SinkChanges ==
    /\ log_file # None
    /\ Commit([Self EXCEPT !.log_file = LogFile(~@[1].writable, @[1].lines)])
    /\ UNCHANGED <<args, now, ret, call_phase, events, menu, jump, console, threads, voices>>

NextLog ==
    \/ Dbg
    \/ SinkChanges

SpecLog == InitLog /\ [][NextLog]_vars

-----------------------------------------------------------------------------
(* Properties of the debug log *)

\* The last n elements of a sequence.
Newest(seq, n) == SubSeq(seq, Len(seq) - n + 1, Len(seq))

\* C11: the debug log never holds more than 500 lines, and it holds exactly
\* the most recent min(n, 500) of the n lines appended so far, in arrival
\* order.
C11_LogKeepsNewest ==
    /\ Len(debug_lines) <= DebugCap
    /\ debug_lines = Newest(appended, Min(Len(appended), DebugCap))

C11_LogOverflowed == Len(appended) >= DebugCap + 2 /\ Len(debug_lines) = DebugCap

\* This step is a call of _dbg with msg.
Logged(msg) == appended' = Append(appended, msg)

\* The lines in the configured file.
SinkLines(file) == IF file = None THEN << >> ELSE file[1].lines

\* C32: a failing write to the log file is swallowed: _dbg raises nothing,
\* and the in-memory log is updated exactly as it would be with no file
\* configured, its last line being the new one, whether the write succeeds,
\* fails or there is no file; the file gets the line only when it is writable.
C32_SinkFailureSwallowed ==
    [][\A msg \in LogMsgs :
          Logged(msg) =>
              /\ ~DbgCall(Self, now, msg).raised
              /\ debug_lines' = _dbg([Self EXCEPT !.log_file = None], now, msg).debug_lines
              /\ debug_lines'[Len(debug_lines')] = msg
              /\ SinkLines(log_file') =
                     IF log_file # None /\ log_file[1].writable
                     THEN Append(SinkLines(log_file), msg)
                     ELSE SinkLines(log_file)]_vars

\* The file took every line of long use, stopped being writable, and the
\* next line reached the in-memory log only.
C32_LineLostToSink ==
    /\ log_file # None
    /\ ~log_file[1].writable
    /\ Len(log_file[1].lines) = DebugCap - 2
    /\ Len(appended) = DebugCap - 1
    /\ debug_lines[Len(debug_lines)] = appended[Len(appended)]

-----------------------------------------------------------------------------
(* The fuzzy menu.  A string is the sequence of its code points (ord, chr), *)
(* so that case folding, prefix tests and the order of str are computed.    *)

MaxItems == 3
MaxQuery == 2

\* str.lower() on ASCII
lower(str) == [i \in 1..Len(str) |-> IF str[i] \in 65..90 THEN str[i] + 32 ELSE str[i]]

startswith(str, prefix) ==
    /\ Len(prefix) <= Len(str)
    /\ SubSeq(str, 1, Len(prefix)) = prefix

\* x < y on str: the first differing code point decides, a proper prefix is smaller
StrLess(x, y) ==
    \E k \in 1..Len(y) :
        /\ \A i \in 1..(k - 1) : i <= Len(x) /\ x[i] = y[i]
        /\ (k > Len(x) \/ x[k] < y[k])

\* `ch in it` that looks at the whole haystack and leaves the iterator alone.
Consume_anywhere(haystack, pos, ch) ==
    IF \E i \in 1..Len(haystack) : haystack[i] = ch THEN pos ELSE 0

\* `ch in it` on an iterator standing at pos: the position after the first
\* occurrence of ch, or 0 when the iterator is exhausted without finding it.
RECURSIVE Consume(_, _, _)
Consume(haystack, pos, ch) ==
    IF pos > Len(haystack) THEN 0
    ELSE IF haystack[pos] = ch THEN pos + 1
    ELSE Consume(haystack, pos + 1, ch)

\* all(ch in it for ch in needle), from needle[k] on
RECURSIVE AllIn(_, _, _, _)
AllIn(haystack, pos, needle, k) ==
    IF k > Len(needle) THEN TRUE
    ELSE LET after == Consume(haystack, pos, needle[k])
         IN  IF after = 0 THEN FALSE ELSE AllIn(haystack, after, needle, k + 1)

\* The fuzzy test that looks at the last character of the needle only.
_fuzzy_in_order_last(haystack, needle) == AllIn(haystack, 1, needle, Len(needle))

_fuzzy_in_order(haystack, needle) == AllIn(haystack, 1, needle, 1)

\* The sort key without the prefix rank.
SortKey_label_only(q, c) == <<0, c.v>>

\* key=lambda x: (0 if x[1].startswith(q) else 1, x[1])
SortKey(q, c) == <<IF startswith(c.v, q) THEN 0 ELSE 1, c.v>>

\* a < b on the key tuples
KeyLess(a, b) == a[1] < b[1] \/ (a[1] = b[1] /\ StrLess(a[2], b[2]))

\* list.sort is stable: an element goes before the first one with a greater key
InsertByKey(sorted, c, q) ==
    LET greater == {j \in 1..Len(sorted) : KeyLess(SortKey(q, c), SortKey(q, sorted[j]))}
        at == IF greater = {} THEN Len(sorted) + 1
              ELSE CHOOSE j \in greater : \A k \in greater : j <= k
    IN  SubSeq(sorted, 1, at - 1) \o <<c>> \o SubSeq(sorted, at, Len(sorted))

RECURSIVE SortByKey(_, _, _)
SortByKey(candidates, n, q) ==
    IF n = 0 THEN << >>
    ELSE InsertByKey(SortByKey(candidates, n - 1, q), candidates[n], q)

_filter_menu_items(items, query) ==
    IF query = << >> THEN [k \in 1..Len(items) |-> k - 1]
    ELSE LET q == lower(query)
             all == [k \in 1..Len(items) |-> [i |-> k - 1, v |-> lower(items[k])]]
             candidates == SelectSeq(all, LAMBDA c : _fuzzy_in_order(c.v, q))
             sorted == SortByKey(candidates, Len(candidates), q)
         IN  [k \in 1..Len(sorted) |-> sorted[k].i]

-----------------------------------------------------------------------------
(* The menu loop (_curses_menu).  The state is taken where the loop waits   *)
(* in getch(): the list is filtered, the cursor clamped and the screen      *)
(* drawn.  One step handles one key and, unless the menu returned, runs the *)
(* top of the next iteration.  The record holds the call's arguments and    *)
(* locals, with left_at the cursor as the key handling left it (idx before  *)
(* the clamp), called the callback the last key invoked and returned the    *)
(* value the call returned, if it has, with the key that made it return.    *)

KEY_DOWN == 258
KEY_UP == 259
KEY_BACKSPACE == 263
KEY_ENTER == 343
KEY_MOUSE == 409

\* "Guild", "Glance", "Back", "Lag"
Guild == <<71, 117, 105, 108, 100>>
Glance == <<71, 108, 97, 110, 99, 101>>
Back == <<66, 97, 99, 107>>
Lag == <<76, 97, 103>>

Labels == {Guild, Glance, Back, Lag}

ItemLists == UNION {[1..n -> Labels] : n \in 0..MaxItems}

\* The callers' keyword arguments: the main menu, a menu with a preview, a
\* menu with the extra key "u".
MenuOptions ==
    {[preview_callback |-> FALSE, key_actions |-> {},    allow_ctrl_k |-> TRUE],
     [preview_callback |-> TRUE,  key_actions |-> {},    allow_ctrl_k |-> FALSE],
     [preview_callback |-> FALSE, key_actions |-> {117}, allow_ctrl_k |-> FALSE]}

\* up, "k", down, "j", backspace, Ctrl+K, "p", mouse, "u", Enter, "g", "l",
\* "G", Escape
Keys == {KEY_UP, 107, KEY_DOWN, 106, KEY_BACKSPACE, 11, 112, KEY_MOUSE, 117, 10,
         103, 108, 71, 27}

\* curses.getmouse() raises; also the event of a key other than the mouse,
\* for which getmouse() is not called.
NoMouse == [raises |-> TRUE, button |-> FALSE, pick |-> 0]

\* What curses.getmouse() does: it raises, or it reports a row (given here
\* relative to the first list row, my - base) and whether button 1 acted.
MouseEvents ==
    {NoMouse} \cup
    {[raises |-> FALSE, button |-> b, pick |-> k] : b \in BOOLEAN, k \in -1..MaxItems}

\* The cursor left as the key handling left it.
ClampIdx_none(idx, n) == idx

\* max(0, min(idx, len(filtered) - 1))
ClampIdx(idx, n) == Max(0, Min(idx, n - 1))

\* The top of an iteration: filter, then clamp the cursor.
LoopTop(m) ==
    LET filtered == _filter_menu_items(m.items, m.query)
    IN  [m EXCEPT !.filtered = filtered,
                  !.left_at = m.idx,
                  !.idx = IF filtered # << >> THEN ClampIdx(m.idx, Len(filtered)) ELSE 0]

\* The call up to its first getch().
MenuOpened(items, opts) ==
    LoopTop([items |-> items,
             preview_callback |-> opts.preview_callback,
             key_actions |-> opts.key_actions,
             allow_ctrl_k |-> opts.allow_ctrl_k,
             query |-> << >>,
             idx |-> 0,
             left_at |-> 0,
             filtered |-> << >>,
             returned |-> None,
             called |-> << >>])

\* The highlighted row taken for the original index.
Selected_row(filtered, idx) == idx

\* filtered[idx]
Selected(filtered, idx) == filtered[idx + 1]

\* Mutant: Ctrl+K cancels every menu.
CancelKey_everywhere(m, ch) == ch = 11

\* allow_ctrl_k and ch == 11
CancelKey(m, ch) == m.allow_ctrl_k /\ ch = 11

\* Mutant: the cursor stops at the first and the last row.
MoveCursor_stops(idx, step, n) == Max(0, Min(idx + step, n - 1))

\* (idx - 1) % len(filtered), (idx + 1) % len(filtered): Python's % takes the
\* sign of the divisor, as % does here.
MoveCursor(idx, step, n) == (idx + step) % n

\* The if/elif chain on the key read.
HandleKey(m, ch, mouse) ==
    LET n == Len(m.filtered)
        quiet == [m EXCEPT !.called = << >>]
        render_len == IF n > 0 THEN n ELSE 1
    IN  IF ch \in {KEY_UP, 107}
        THEN IF n > 0 THEN [quiet EXCEPT !.idx = MoveCursor(m.idx, -1, n)] ELSE quiet
        ELSE IF ch \in {KEY_DOWN, 106}
        THEN IF n > 0 THEN [quiet EXCEPT !.idx = MoveCursor(m.idx, 1, n)] ELSE quiet
        ELSE IF ch \in {KEY_BACKSPACE, 127, 8}
        THEN [quiet EXCEPT !.query = SubSeq(@, 1, Len(@) - 1)]
        ELSE IF CancelKey(m, ch)
        THEN [quiet EXCEPT !.returned = Some([value |-> -1, ch |-> ch])]
        ELSE IF ch \in {112, 80}
        THEN IF m.preview_callback /\ n > 0
             THEN [quiet EXCEPT !.called =
                      <<[fn |-> "preview_callback", key |-> ch, arg |-> Selected(m.filtered, m.idx)]>>]
             ELSE quiet
        ELSE IF ch = KEY_MOUSE
        THEN IF mouse.raises THEN quiet
             ELSE IF /\ mouse.button
                     /\ 0 <= mouse.pick /\ mouse.pick < render_len
                     /\ n > 0
             THEN [quiet EXCEPT !.returned = Some([value |-> m.filtered[mouse.pick + 1], ch |-> ch])]
             ELSE quiet
        ELSE IF ch \in m.key_actions
        THEN IF n > 0
             THEN [quiet EXCEPT !.called =
                      <<[fn |-> "key_actions", key |-> ch, arg |-> Selected(m.filtered, m.idx)]>>]
             ELSE quiet
        ELSE IF ch \in {10, 13, KEY_ENTER}
        THEN IF n > 0
             THEN [quiet EXCEPT !.returned = Some([value |-> Selected(m.filtered, m.idx), ch |-> ch])]
             ELSE quiet
        ELSE IF 32 <= ch /\ ch <= 126
        THEN [quiet EXCEPT !.query = Append(@, ch)]
        ELSE quiet

\* One iteration from getch() to the next getch(), or to the return.
_curses_menu(m, ch, mouse) ==
    LET handled == HandleKey(m, ch, mouse)
    IN  IF handled.returned = None THEN LoopTop(handled) ELSE handled

InitMenu ==
    /\ args = AgedArgs
    /\ Holds(Construct)
    /\ now = 0
    /\ ret = None
    /\ call_phase = [c \in Channels |-> "none"]
    /\ events = 0
    /\ menu \in {Some(MenuOpened(items, opts)) : items \in ItemLists, opts \in MenuOptions}
    /\ jump = None
    /\ console = None
    /\ voices = NoVoices
    /\ threads = None

\* getch() returned ch.
Pressed(ch, mouse) ==
    LET r == _current_notice(Self, now)
    IN  /\ menu[1].returned = None
        /\ menu' = Some(_curses_menu(menu[1], ch, mouse))
        /\ Len(menu'[1].query) <= MaxQuery
        /\ IF menu'[1].returned = None
           THEN Commit(r.self) /\ ret' = r.ret
           ELSE Commit(Self) /\ ret' = ret
        /\ UNCHANGED <<args, now, call_phase, events, jump, console, threads, voices>>

GetCh == \E ch \in Keys \ {KEY_MOUSE} : Pressed(ch, NoMouse)

GetMouse == \E mouse \in MouseEvents : Pressed(KEY_MOUSE, mouse)

NextMenu ==
    \/ GetCh
    \/ GetMouse

SpecMenu == InitMenu /\ [][NextMenu]_vars

-----------------------------------------------------------------------------
(* Properties of the fuzzy menu *)

Range(seq) == {seq[k] : k \in 1..Len(seq)}

\* needle is an ordered, not necessarily contiguous, subsequence of haystack
IsSubsequence(needle, haystack) ==
    \E f \in [1..Len(needle) -> 1..Len(haystack)] :
        /\ \A k \in 1..Len(needle) : haystack[f[k]] = needle[k]
        /\ \A j, k \in 1..Len(needle) : j < k => f[j] < f[k]

\* The label of the item with Python index i, lowercased.
LabelOf(m, i) == lower(m.items[i + 1])

\* C12: with an empty query the filtered list is every item index in the
\* original order; with a non-empty query an index is in the list if and
\* only if the lowercased query is an ordered subsequence of the item's
\* lowercased label; no index is listed twice.
C12_FilterMatchesSubsequences ==
    menu # None =>
        LET m == menu[1]
        IN  /\ m.query = << >> => m.filtered = [k \in 1..Len(m.items) |-> k - 1]
            /\ m.query # << >> =>
                   \A i \in 0..(Len(m.items) - 1) :
                       i \in Range(m.filtered) <=> IsSubsequence(lower(m.query), LabelOf(m, i))
            /\ Range(m.filtered) \subseteq 0..(Len(m.items) - 1)
            /\ \A j, k \in 1..Len(m.filtered) : j # k => m.filtered[j] # m.filtered[k]

\* "Gl" typed over ["Back", "Guild"] keeps Guild alone: g .. l, in any case.
C12_MatchedAcrossCaseAndGap ==
    /\ menu # None
    /\ menu[1].items = <<Back, Guild>>
    /\ menu[1].query = <<71, 108>>
    /\ menu[1].filtered = <<1>>

PrefixRank(m, i) == IF startswith(LabelOf(m, i), lower(m.query)) THEN 0 ELSE 1

\* C13: in the filtered list of a non-empty query every item whose lowercased
\* label starts with the lowercased query comes before every item whose
\* label does not, and within each of the two ranks the lowercased labels
\* are in alphabetical order; "gl" over ["Guild", "Glance", "Back"] lists
\* Glance, then Guild, and not Back.
C13_PrefixFirstThenAlphabetical ==
    /\ _filter_menu_items(<<Guild, Glance, Back>>, <<103, 108>>) = <<1, 0>>
    /\ (menu # None /\ menu[1].query # << >>) =>
           LET m == menu[1]
           IN  \A j, k \in 1..Len(m.filtered) :
                   j < k =>
                       /\ PrefixRank(m, m.filtered[j]) <= PrefixRank(m, m.filtered[k])
                       /\ PrefixRank(m, m.filtered[j]) = PrefixRank(m, m.filtered[k]) =>
                              ~StrLess(LabelOf(m, m.filtered[k]), LabelOf(m, m.filtered[j]))

\* "l" over ["Glance", "Lag"]: Lag starts with the query and goes first,
\* although "glance" < "lag".
C13_PrefixBeatsAlphabet ==
    /\ menu # None
    /\ menu[1].items = <<Glance, Lag>>
    /\ menu[1].query = <<108>>
    /\ menu[1].filtered = <<1, 0>>

\* This step typed a character onto a non-empty query.
TypedOnto ==
    /\ menu # None /\ menu' # None
    /\ menu[1].query # << >>
    /\ Len(menu'[1].query) = Len(menu[1].query) + 1
    /\ SubSeq(menu'[1].query, 1, Len(menu[1].query)) = menu[1].query

\* C14: a character appended to a non-empty query never adds an item: the
\* indices matched by the longer query are a subset of those matched by the
\* shorter one.
C14_TypingNarrows ==
    [][TypedOnto => Range(menu'[1].filtered) \subseteq Range(menu[1].filtered)]_vars

\* A second character has removed some, not all, of the first one's matches.
C14_Narrowed ==
    /\ menu # None
    /\ Len(menu[1].query) = 2
    /\ menu[1].filtered # << >>
    /\ Len(menu[1].filtered) <
           Len(_filter_menu_items(menu[1].items, SubSeq(menu[1].query, 1, 1)))

\* C16: wherever the loop uses the cursor (the highlight drawn, Enter, the
\* preview, an extra key) it is a row of the filtered list, or 0 when the
\* list is empty; a callback is handed an index of the filtered list.
C16_CursorInRange ==
    menu # None =>
        LET m == menu[1]
        IN  /\ m.filtered # << >> => (0 <= m.idx /\ m.idx <= Len(m.filtered) - 1)
            /\ m.filtered = << >> => m.idx = 0
            /\ \A k \in 1..Len(m.called) : m.called[k].arg \in Range(m.filtered)

\* The key handling left the cursor below the end of the new, shorter list,
\* and the clamp moved it.
C16_Clamped ==
    /\ menu # None
    /\ menu[1].left_at > menu[1].idx
    /\ menu[1].filtered # << >>

\* C17: Enter returns the original index held by the highlighted row of the
\* filtered list; on an empty filtered list it returns nothing and leaves
\* query and cursor as they were.
C17_EnterReturnsOriginalIndex ==
    [][(menu # None /\ Pressed(10, NoMouse)) =>
           IF menu[1].filtered # << >>
           THEN /\ menu'[1].returned = Some([value |-> menu[1].filtered[menu[1].idx + 1], ch |-> 10])
                /\ menu[1].items[menu'[1].returned[1].value + 1] \in Labels
           ELSE /\ menu'[1].returned = None
                /\ menu'[1].query = menu[1].query
                /\ menu'[1].idx = menu[1].idx]_vars

\* Enter returned an original index that is not the row number.
C17_ReturnedReorderedRow ==
    /\ menu # None
    /\ menu[1].returned # None
    /\ menu[1].returned[1].ch = 10
    /\ menu[1].returned[1].value # menu[1].idx
    /\ menu[1].returned[1].value = menu[1].filtered[menu[1].idx + 1]

\* C18: every printable key (codes 32..126) appends its character to the
\* query and the list is filtered again; backspace removes the last
\* character of the query and leaves an empty query empty.  (A key the
\* caller registered as an extra key is left out: it runs its callback.)
C18_PrintableKeysAppend ==
    [][menu # None =>
           /\ \A ch \in Keys \ menu[1].key_actions :
                  (32 <= ch /\ ch <= 126 /\ Pressed(ch, NoMouse)) =>
                      /\ menu'[1].query = Append(menu[1].query, ch)
                      /\ menu'[1].filtered = _filter_menu_items(menu[1].items, menu'[1].query)
           /\ Pressed(KEY_BACKSPACE, NoMouse) =>
                  menu'[1].query = SubSeq(menu[1].query, 1, Len(menu[1].query) - 1)]_vars

UpKeys == {KEY_UP, 107}
DownKeys == {KEY_DOWN, 106}

\* This step is what the loop does when getch() returns ch and the call goes
\* on: the key handling's query, callbacks and cursor are those of the next
\* iteration (left_at is the cursor the key handling left).
KeyHandled(ch) ==
    LET handled == HandleKey(menu[1], ch, NoMouse)
    IN  /\ menu' # None
        /\ menu[1].returned = None
        /\ handled.returned = None
        /\ menu'[1].returned = None
        /\ menu'[1].query = handled.query
        /\ menu'[1].called = handled.called
        /\ menu'[1].left_at = handled.idx

\* C34: up (or "k") and down (or "j") leave the query, the filtered list
\* and the call running, and move the cursor by one row of the filtered list:
\* up from row 0 goes to the last row, down from the last row to row 0; on
\* an empty filtered list the cursor stays where it is.
C34_UpDownWrap ==
    [][menu # None =>
           \A ch \in UpKeys \cup DownKeys :
               KeyHandled(ch) =>
                   LET m == menu[1]
                       n == Len(m.filtered)
                   IN  /\ menu'[1].query = m.query
                       /\ menu'[1].filtered = m.filtered
                       /\ menu'[1].returned = None
                       /\ menu'[1].called = << >>
                       /\ menu'[1].idx =
                              IF n = 0 THEN m.idx
                              ELSE IF ch \in UpKeys
                              THEN (IF m.idx = 0 THEN n - 1 ELSE m.idx - 1)
                              ELSE (IF m.idx = n - 1 THEN 0 ELSE m.idx + 1)]_vars

\* The cursor is on the last of three rows that a query has reordered, where
\* up takes it from row 0 in one step.
C34_CursorOnLastRow ==
    /\ menu # None
    /\ menu[1].returned = None
    /\ menu[1].query # << >>
    /\ Len(menu[1].filtered) = MaxItems
    /\ menu[1].idx = MaxItems - 1
    /\ menu[1].filtered[1] # 0

\* The rows drawn for the current query: the filtered items, or the one
\* placeholder row "(no results)".
RenderedRows(m) == IF m.filtered # << >> THEN Len(m.filtered) ELSE 1

\* C35: a value the menu returned is -1, from Ctrl+K in a menu that allows
\* it, or it came from Enter or a mouse click and is the original index of a
\* row drawn for the current query, so it is an index of items whose label
\* matches the query; and a mouse event returns the original index of the
\* row clicked when button 1 acted on a drawn item row, and nothing when it
\* raises, is no click, hits the placeholder row or misses the drawn rows.
C35_ReturnsCancelOrRenderedRow ==
    menu # None =>
        LET m == menu[1]
        IN  /\ m.returned # None =>
                   LET r == m.returned[1]
                   IN  IF r.value = -1
                       THEN r.ch = 11 /\ m.allow_ctrl_k
                       ELSE /\ r.ch \in {10, 13, KEY_ENTER, KEY_MOUSE}
                            /\ m.filtered = _filter_menu_items(m.items, m.query)
                            /\ r.value \in Range(m.filtered)
                            /\ r.value \in 0..(Len(m.items) - 1)
                            /\ m.query # << >> => IsSubsequence(lower(m.query), LabelOf(m, r.value))
            /\ m.returned = None =>
                   \A mouse \in MouseEvents :
                       HandleKey(m, KEY_MOUSE, mouse).returned =
                           IF /\ ~mouse.raises
                              /\ mouse.button
                              /\ m.filtered # << >>
                              /\ mouse.pick \in 0..(RenderedRows(m) - 1)
                           THEN Some([value |-> m.filtered[mouse.pick + 1], ch |-> KEY_MOUSE])
                           ELSE None

\* A click on the first row of a list that a query has shortened and
\* reordered returned that row's original index, which is not 0.
C35_ClickReturnedReorderedRow ==
    /\ menu # None
    /\ menu[1].returned # None
    /\ menu[1].returned[1].ch = KEY_MOUSE
    /\ menu[1].query # << >>
    /\ Len(menu[1].filtered) < Len(menu[1].items)
    /\ menu[1].filtered[1] # 0
    /\ menu[1].returned[1].value = menu[1].filtered[1]

-----------------------------------------------------------------------------
(* The recent targets and the quick-jump list.  A target is a dict: a       *)
(* function from its keys to their values.                                  *)

MaxConnects == 3

RecentCap == 30

\* dict.get(key)
Get(e, key) == IF key \in DOMAIN e THEN Some(e[key]) ELSE None

\* dict(e, key=value), e[key] = value on a copy
With(e, key, value) == [k \in DOMAIN e \cup {key} |-> IF k = key THEN value ELSE e[k]]

\* (kind, user_id, guild_id, channel_id)
Identity(e) == <<Get(e, "kind"), Get(e, "user_id"), Get(e, "guild_id"), Get(e, "channel_id")>>

\* The list kept whole, the old occurrence included.
DropSameTarget_none(targets, entry) == targets

\* [e for e in self._recent_targets if not (same kind, user, guild, channel)]
DropSameTarget(targets, entry) ==
    SelectSeq(targets, LAMBDA e : Identity(e) # Identity(entry))

_remember_recent(s, entry, t) ==
    LET stamped == With(entry, "ts", t)
        inserted == <<stamped>> \o DropSameTarget(s.recent_targets, stamped)
        remembered == [s EXCEPT !.recent_targets = SubSeq(inserted, 1, Min(Len(inserted), RecentCap)),
                                !.uses = Append(@, Identity(stamped))]
    IN  _dbg(remembered, t, <<"recent add", Get(stamped, "label")>>)

\* The directory the library keeps: self.guilds and self.private_channels.
\* Names are strings: "beta", "Alpha", "Zed", "amy".
LiveDirectory ==
    [guilds |->
        <<[id |-> 2, name |-> <<98, 101, 116, 97>>,
           voice_channels |-> <<[id |-> 21, position |-> 1], [id |-> 22, position |-> 0]>>],
          [id |-> 1, name |-> <<65, 108, 112, 104, 97>>,
           voice_channels |-> <<[id |-> 11, position |-> 0]>>]>>,
     private_channels |->
        <<[type |-> "dm", recipient |-> Some([id |-> 5, name |-> <<90, 101, 100>>])],
          [type |-> "group", recipient |-> None],
          [type |-> "dm", recipient |-> None],
          [type |-> "dm", recipient |-> Some([id |-> 6, name |-> <<97, 109, 121>>])]>>]

EmptyDirectory == [guilds |-> << >>, private_channels |-> << >>]

Directories == {LiveDirectory, EmptyDirectory}

\* The users a DM can be opened with: two of the directory and a stranger.
Users == {5, 6, 7}

\* sorted(seq, key=...) with keys[i] the key of seq[i], a string or, for a
\* number n, <<n>>: the sort is stable, so an element comes after those with
\* a smaller key and those before it with an equal key.
StableSort(seq, keys) ==
    LET before(i) == {j \in 1..Len(seq) :
                         StrLess(keys[j], keys[i]) \/ (keys[j] = keys[i] /\ j < i)}
    IN  [r \in 1..Len(seq) |-> seq[CHOOSE i \in 1..Len(seq) : Cardinality(before(i)) = r - 1]]

\* _open_dm_connection_by_id: the connection is made or an exception leaves.
_open_dm_connection_by_id(s, user_id, connects, t) ==
    IF connects
    THEN _remember_recent(s, [kind |-> "dm", user_id |-> user_id,
                              label |-> <<"DM", user_id>>], t)
    ELSE s

\* _open_guild_connection: raises when the guild or the channel is not found
\* or the connection fails.
_open_guild_connection(s, directory, guild_id, channel_id, connects, t) ==
    IF /\ \E g \in 1..Len(directory.guilds) :
              /\ directory.guilds[g].id = guild_id
              /\ \E c \in 1..Len(directory.guilds[g].voice_channels) :
                     directory.guilds[g].voice_channels[c].id = channel_id
       /\ connects
    THEN _remember_recent(s, [kind |-> "guild", guild_id |-> guild_id, channel_id |-> channel_id,
                              label |-> <<"guild", guild_id, channel_id>>], t)
    ELSE s

\* The targets kept as they come, repeats included.
RECURSIVE Dedupe_none(_, _)
Dedupe_none(targets, n) == IF n = 0 THEN << >> ELSE Append(Dedupe_none(targets, n - 1), targets[n])

\* The deduped list of the first n targets: a target whose key was seen is skipped.
RECURSIVE Dedupe(_, _)
Dedupe(targets, n) ==
    IF n = 0 THEN << >>
    ELSE LET deduped == Dedupe(targets, n - 1)
         IN  IF \E j \in 1..(n - 1) : Identity(targets[j]) = Identity(targets[n])
             THEN deduped
             ELSE Append(deduped, targets[n])

\* The concatenation of a sequence of sequences.
RECURSIVE Flatten(_, _)
Flatten(seqs, n) == IF n = 0 THEN << >> ELSE Flatten(seqs, n - 1) \o seqs[n]

\* _ctui_quick_jump up to the menu: the target list it builds.
QuickJumpTargets(s, directory) ==
    LET recents == [k \in 1..Len(s.recent_targets) |-> With(s.recent_targets[k], "recent", TRUE)]
        guilds == StableSort(directory.guilds,
                             [k \in 1..Len(directory.guilds) |-> lower(directory.guilds[k].name)])
        of_guild(g) ==
            LET chans == StableSort(g.voice_channels,
                                    [k \in 1..Len(g.voice_channels) |-> <<g.voice_channels[k].position>>])
            IN  [k \in 1..Len(chans) |->
                    [kind |-> "guild", guild_id |-> g.id, channel_id |-> chans[k].id,
                     label |-> <<"guild", g.id, chans[k].id, "members">>, recent |-> FALSE]]
        channels == Flatten([k \in 1..Len(guilds) |-> of_guild(guilds[k])], Len(guilds))
        name(c) == IF c.recipient # None THEN lower(c.recipient[1].name) ELSE << >>
        dm_channels == SelectSeq(directory.private_channels, LAMBDA c : c.type = "dm")
        sorted_dms == StableSort(dm_channels, [k \in 1..Len(dm_channels) |-> name(dm_channels[k])])
        with_recipient == SelectSeq(sorted_dms, LAMBDA c : c.recipient # None)
        dms == [k \in 1..Len(with_recipient) |->
                   [kind |-> "dm", user_id |-> with_recipient[k].recipient[1].id,
                    label |-> <<"DM", with_recipient[k].recipient[1].id>>, recent |-> FALSE]]
        targets == recents \o channels \o dms
    IN  Dedupe(targets, Len(targets))

\* The rest of _ctui_quick_jump, with the menu returning idx and the
\* connection made or not.
QuickJumpConnect(s, directory, targets, idx, connects, t) ==
    IF targets = << >> \/ idx >= Len(targets) THEN s
    ELSE LET target == targets[idx + 1]
         IN  IF Get(target, "kind") = Some("dm")
             THEN _open_dm_connection_by_id(s, target.user_id, connects, t)
             ELSE IF Get(target, "kind") = Some("guild")
             THEN _open_guild_connection(s, directory, target.guild_id,
                                         target.channel_id, connects, t)
             ELSE s

\* A guild the user has since left, with the channels joined while in it.
AgedGuild == 9

\* The object after channels lo .. hi of AgedGuild were joined, one after another.
RECURSIVE JoinedRange(_, _, _)
JoinedRange(s, lo, hi) ==
    IF lo > hi THEN s
    ELSE LET joined == JoinedRange(s, lo, hi - 1)
         IN  IF joined.created >= 0
             THEN _remember_recent(joined, [kind |-> "guild", guild_id |-> AgedGuild,
                                            channel_id |-> hi,
                                            label |-> <<"guild", AgedGuild, hi>>], 0)
             ELSE joined

RecentsAged == JoinedRange(Construct, 1, RecentCap - 1)

InitRecents ==
    /\ args = AgedArgs
    /\ Holds(RecentsAged)
    /\ now = 0
    /\ ret = None
    /\ call_phase = [c \in Channels |-> "none"]
    /\ events = 0
    /\ menu = None
    /\ jump = None
    /\ console = None
    /\ voices = NoVoices
    /\ threads = None

\* A DM call opened from the DM menus.
OpenDm ==
    \E user_id \in Users, connects \in BOOLEAN :
        /\ Len(uses) < RecentCap - 1 + MaxConnects
        /\ Commit(_open_dm_connection_by_id(Self, user_id, connects, now))
        /\ UNCHANGED <<args, now, ret, call_phase, events, menu, jump, console, threads, voices>>

\* The rows the menu of the quick-jump list is made to return: the first two,
\* the oldest recent, the first and the last live target, and Back.
Picks(recents, targets) ==
    {0, 1, Len(recents) - 1, Len(recents), Len(targets) - 1, Len(targets)} \cap 0..Len(targets)

\* _ctui_quick_jump
QuickJump ==
    \E directory \in Directories :
        \E targets \in {QuickJumpTargets(Self, directory)} :
            \E idx \in Picks(recent_targets, targets), connects \in BOOLEAN :
                /\ Len(uses) < RecentCap - 1 + MaxConnects
                /\ Commit(QuickJumpConnect(Self, directory, targets, idx, connects, now))
                /\ jump' = Some([targets |-> targets, directory |-> directory,
                                 recent_targets |-> recent_targets])
                /\ UNCHANGED <<args, now, ret, call_phase, events, menu, console, threads, voices>>

NextRecents ==
    \/ OpenDm
    \/ QuickJump

SpecRecents == InitRecents /\ [][NextRecents]_vars

-----------------------------------------------------------------------------
(* Properties of the recent targets and the quick-jump list *)

\* The position in uses of the last time the target was remembered.
LastUse(id) == CHOOSE i \in 1..Len(uses) : uses[i] = id /\ \A j \in (i + 1)..Len(uses) : uses[j] # id

\* The targets remembered after the given one was last remembered.
UsedSince(id) == {other \in Range(uses) : LastUse(other) > LastUse(id)}

\* C19: the recent targets are at most 30, no two of them have the same
\* identity (kind, user_id, guild_id, channel_id), they are ordered from the
\* most recently remembered to the least, and they are exactly the 30 most
\* recently remembered targets: a target remembered again is moved to the
\* front, and on overflow the least recently remembered one is dropped.
C19_RecentsAreNewestDistinct ==
    /\ Len(recent_targets) <= RecentCap
    /\ \A j, k \in 1..Len(recent_targets) :
           j # k => Identity(recent_targets[j]) # Identity(recent_targets[k])
    /\ \A k \in 1..Len(recent_targets) : Identity(recent_targets[k]) \in Range(uses)
    /\ \A j, k \in 1..Len(recent_targets) :
           j < k => LastUse(Identity(recent_targets[j])) > LastUse(Identity(recent_targets[k]))
    /\ {Identity(recent_targets[k]) : k \in 1..Len(recent_targets)} =
           {id \in Range(uses) : Cardinality(UsedSince(id)) < RecentCap}

\* More than 30 targets were remembered, one of them twice.
C19_ReaddedAfterOverflow ==
    /\ Len(recent_targets) = RecentCap
    /\ Cardinality(Range(uses)) > RecentCap
    /\ Len(uses) > Cardinality(Range(uses))

\* The identities of the targets the directory lists: every voice channel of
\* every guild, every DM channel that has a recipient.
LiveIdentities(directory) ==
    UNION {{<<Some("guild"), None, Some(directory.guilds[g].id),
              Some(directory.guilds[g].voice_channels[c].id)>> :
                c \in 1..Len(directory.guilds[g].voice_channels)} :
           g \in 1..Len(directory.guilds)}
    \cup
    {<<Some("dm"), Some(directory.private_channels[k].recipient[1].id), None, None>> :
         k \in {k \in 1..Len(directory.private_channels) :
                   /\ directory.private_channels[k].type = "dm"
                   /\ directory.private_channels[k].recipient # None}}

\* C20: the quick-jump list starts with the recent targets, in the order of
\* the recent list and flagged recent; after them come live targets, not
\* flagged; every recent and every live target is listed, and no identity is
\* listed twice: a live target that is also a recent one is not repeated.
C20_QuickJumpMergesOnce ==
    jump # None =>
        LET targets == jump[1].targets
            recents == jump[1].recent_targets
            live == LiveIdentities(jump[1].directory)
        IN  /\ Len(targets) >= Len(recents)
            /\ \A k \in 1..Len(recents) : targets[k] = With(recents[k], "recent", TRUE)
            /\ \A k \in (Len(recents) + 1)..Len(targets) :
                   /\ targets[k].recent = FALSE
                   /\ Identity(targets[k]) \in live
            /\ \A id \in live : \E k \in 1..Len(targets) : Identity(targets[k]) = id
            /\ \A j, k \in 1..Len(targets) : j # k => Identity(targets[j]) # Identity(targets[k])

\* A live target was a recent one too, and the list holds it once.
C20_LiveTargetAlreadyRecent ==
    /\ jump # None
    /\ jump[1].recent_targets # << >>
    /\ \E k \in 1..Len(jump[1].recent_targets) :
           Identity(jump[1].recent_targets[k]) \in LiveIdentities(jump[1].directory)
    /\ \E k \in 1..Len(jump[1].targets) : jump[1].targets[k].recent = FALSE

-----------------------------------------------------------------------------
(* Further properties of the call lifecycle tracker *)

\* This step handled a RingingToMe event of channel c: it created c's record.
RangOn(c) == RecordInserted /\ call_history'[1].channel_id = c

\* This step handled a Deleted event of channel c.
DeletedOn(c) == \E call \in Calls : call.channel_id = c /\ Deleted(call)

\* The record c's entry points at is still in the history after this step.
RecordKept(c) ==
    \E j \in 1..Len(call_history') :
        call_history'[j].id = call_history[active_call_records[c] + 1].id

\* The object with c's entry pointing past the end of the history.
WithStaleIndex(s, c) ==
    [s EXCEPT !.active_call_records = SetIndex(@, c, Len(s.call_history))]

\* C26: a channel has an entry in the active index exactly from its
\* RingingToMe to its Deleted, unless its record is aged out of the history
\* before: a ring adds the entry, Deleted removes it, otherwise an entry is
\* never added and is dropped only when its record leaves the history.
\* Deleted removes the entry even when the stored index is out of bounds.
C26_IndexTracksCallsInProgress ==
    /\ [](\A call \in Calls :
             LET stale == WithStaleIndex(Self, call.channel_id)
                 after == _finalize_call(stale, call, args, now)
             IN  /\ call.channel_id \notin DOMAIN after.active_call_records
                 /\ after.call_history = call_history)
    /\ [][\A c \in Channels :
             c \in DOMAIN active_call_records' <=>
                 IF DeletedOn(c) THEN FALSE
                 ELSE IF RangOn(c) THEN TRUE
                 ELSE c \in DOMAIN active_call_records /\ RecordKept(c)]_vars

\* The call of channel 20 rang and was deleted, and its entry is gone, while
\* the call of channel 10 still has its entry.
C26_OneEndedOneInProgress ==
    /\ 10 \in DOMAIN active_call_records
    /\ 20 \notin DOMAIN active_call_records
    /\ \E i \in 1..Len(call_history) :
           call_history[i].channel_id = 20 /\ call_history[i].status \in {"missed", "ended"}

\* This step delivered a RingingToMe event of channel c: a Created event of
\* a call ringing this operator, or an update in which it starts to ring.
RingDelivered(c) ==
    \/ \E call \in Calls, popen_raises \in BOOLEAN :
           /\ call.channel_id = c
           /\ _is_ringing_me(call)
           /\ Created(call, popen_raises)
    \/ \E old_call \in Calls, call \in Calls, popen_raises \in BOOLEAN :
           /\ call.channel_id = c
           /\ _is_ringing_me(call) /\ ~_is_ringing_me(old_call)
           /\ Updated(old_call, call, popen_raises)

\* C27: a RingingToMe event of a channel that has an entry in the active
\* index inserts no record and leaves the history and the index unchanged.
C27_ReRingIsNoOp ==
    [][\A c \in Channels :
          (c \in DOMAIN active_call_records /\ RingDelivered(c)) =>
              /\ call_history' = call_history
              /\ active_call_records' = active_call_records]_vars

\* This step handled a call event that created no record.
NoRingEvent == events' = events + 1 /\ created' = created

\* This step handled a call event that left the object as on_call_delete of
\* channel c leaves it.
DeleteHandled(c) ==
    /\ NoRingEvent
    /\ \E call \in Calls :
           /\ call.channel_id = c
           /\ Self' = on_call_delete(Self, call, args, now)

\* This step handled a call event that left the object as on_call_update
\* leaves it when this operator joins the call of channel c and no ring is
\* delivered with it (ConnectedToMe alone).
ConnectHandled(c) ==
    /\ NoRingEvent
    /\ \E old_call \in Calls, call \in Calls :
           /\ call.channel_id = c /\ old_call.channel_id = c
           /\ _is_connected_me(call) /\ ~_is_connected_me(old_call)
           /\ ~(_is_ringing_me(call) /\ ~_is_ringing_me(old_call))
           /\ Self' = on_call_update(Self, old_call, call, args, now, FALSE)

\* The missed-call notice this step's Deleted event of channel c pushes.
MissedNotice(c) ==
    LET entry == call_history[active_call_records[c] + 1]
    IN  _push_notice(Self, args, now, <<"Missed call", entry.peer>>).active_notice

\* C29: a Deleted event pushes the missed-call notification exactly when
\* it finalizes a record as missed; a Deleted that finalizes as ended, a
\* Deleted of a channel without a record, and every ConnectedToMe leave the
\* active notification as it was.
C29_MissedNoticeOnlyWhenMissed ==
    [][\A c \in Channels :
          /\ DeleteHandled(c) =>
                 IF \E i \in 1..Len(call_history) : NewlyMissed(i)
                 THEN active_notice' = MissedNotice(c)
                 ELSE active_notice' = active_notice
          /\ ConnectHandled(c) => active_notice' = active_notice]_vars

\* After long use the call of channel 20 rang, was answered and was deleted:
\* it is ended, and its incoming-call notification is still the active one.
C29_EndedKeptIncomingNotice ==
    /\ events > 0
    /\ call_history[1].channel_id = 20
    /\ call_history[1].status = "ended"
    /\ active_notice # None
    /\ active_notice[1].message = IncomingMsg(Call(20, {Me}, FALSE))

\* The ids of the records of a history, in order.
Ids(history) == [i \in 1..Len(history) |-> history[i].id]

\* Between this state and the next the history keeps its records in their
\* places, and only the record c's index entry refers to may differ.
OnlyIndexedRecordChanged(c) ==
    /\ Ids(call_history') = Ids(call_history)
    /\ \A i \in 1..Len(call_history) :
           (c \in DOMAIN active_call_records /\ i = active_call_records[c] + 1)
           \/ call_history'[i] = call_history[i]

\* C30: ConnectedToMe and Deleted leave the length and the order of the
\* history unchanged and modify no record other than the one the index entry
\* of the event's channel refers to; the records of the history change places
\* only in a step that delivers RingingToMe.
C30_OnlyRingReshapesHistory ==
    [][/\ \A c \in Channels :
            (DeleteHandled(c) \/ ConnectHandled(c)) => OnlyIndexedRecordChanged(c)
       /\ Ids(call_history') # Ids(call_history) => \E c \in Channels : RangOn(c)]_vars

\* After long use the call of channel 10, whose record is the oldest of a
\* long history, was answered and deleted: it is ended where it stood.
C30_OldestEndedInPlace ==
    /\ events > 0
    /\ Len(call_history) > HistoryCap - MaxEvents
    /\ call_history[Len(call_history)].channel_id = 10
    /\ call_history[Len(call_history)].status = "ended"

\* The identities of the records marked answered.
AnsweredIds(history) == {history[i].id : i \in {k \in 1..Len(history) : history[k].answered}}

\* C37: on_call_update acts on edges.  It creates a record when and only
\* when "ringing includes me" is false in the old call and true in the new
\* one, and marks a record answered only when "connected includes me" rises
\* in the same way; an update in which neither rises, and a Created event
\* whose ringing set does not include this operator, leave the history, the
\* active index and the notification as they are.
C37_UpdatesAreEdgeTriggered ==
    \A call \in Calls, popen_raises \in BOOLEAN :
        /\ ~_is_ringing_me(call) =>
               SameTracker(on_call_create(Self, call, args, now, popen_raises))
        /\ \A old_call \in Calls :
               old_call.channel_id = call.channel_id =>
                   LET after == on_call_update(Self, old_call, call, args, now, popen_raises)
                       rings == _is_ringing_me(call) /\ ~_is_ringing_me(old_call)
                       connects == _is_connected_me(call) /\ ~_is_connected_me(old_call)
                   IN  /\ after.created = IF rings THEN created + 1 ELSE created
                       /\ ~rings => Ids(after.call_history) = Ids(call_history)
                       /\ ~connects =>
                              AnsweredIds(after.call_history) \subseteq AnsweredIds(call_history)
                       /\ (~rings /\ ~connects) => SameTracker(after)

\* Events were delivered with channel 10's call ringing all along, among
\* them none that rang afresh, connected or ended a call: the tracker is as
\* it was, with the record of channel 10 still ringing and no new record.
C37_NothingRose ==
    /\ events = MaxEvents
    /\ created = HistoryCap - 2
    /\ call_history = Aged.call_history
    /\ active_call_records = Aged.active_call_records
    /\ active_notice = Aged.active_notice
    /\ appended = Aged.appended
    /\ call_phase[10] = "rung"

\* C38: every record of the history whose status is ringing or answered is
\* referred to by exactly one entry of the active index, so that the Deleted
\* event of its channel can finalize it.
C38_NoOrphanedRecord ==
    \A i \in 1..Len(call_history) :
        call_history[i].status \in {"ringing", "answered"} =>
            Cardinality({c \in DOMAIN active_call_records :
                            active_call_records[c] = i - 1}) = 1

-----------------------------------------------------------------------------
(* The two threads.  The console runs in a thread of its own                *)
(* (asyncio.to_thread in _run_ctui) and its render loop reads the banner    *)
(* through _current_notice, while the call events are handled on the event  *)
(* loop's thread.  No lock guards _active_notice, so the interpreter may     *)
(* switch threads between any two statements: _current_notice is modelled   *)
(* statement by statement, and _handle_call_event call by call.             *)

MaxRings == 2

\* The command line of this part: notifications expire, a notify command is set.
ThreadArgs ==
    [call_notify_persistent |-> FALSE, call_notify_seconds |-> 0, call_notify_cmd |-> TRUE]

\* The calls that ring this operator, and the same calls when they end.
RingCalls == {Call(c, {Me}, FALSE) : c \in Channels}
EndCalls == {Call(c, {}, FALSE) : c \in Channels}

\* Mutant: the notice is pushed before the call is recorded.
Stages_push_first == <<"push", "record", "finish">>

\* The calls _handle_call_event makes once the call is known to ring, in order:
\* _record_incoming_call; _push_notice; _emit_call_sound, print and _dbg.
Stages == <<"record", "push", "finish">>

HandleStage(s, name, call, event_name, a, t, popen_raises) ==
    CASE name = "record" ->
             _record_incoming_call(s, call, FromLabel(call), PeerLabel(call))
      [] name = "push" -> _push_notice(s, a, t, IncomingMsg(call))
      [] name = "finish" ->
             _dbg(_emit_call_sound(s, a, t, popen_raises), t,
                  <<"call", event_name, IncomingMsg(call)>>)

\* The render thread is not in _current_notice and has not called it yet
\* (read_at is the clock at its last return); no call event is being handled.
Idle == [render |-> "idle", exp |-> None, handler |-> None, read_at |-> None]

InitThreads ==
    /\ args = ThreadArgs
    /\ Holds(Construct)
    /\ now = 0
    /\ ret = None
    /\ call_phase = [c \in Channels |-> "none"]
    /\ events = 0
    /\ menu = None
    /\ jump = None
    /\ console = None
    /\ voices = NoVoices
    /\ threads = Idle

\* The stage of _handle_call_event that comes next for this call: the first
\* when the event loop is free, none (0) while it handles another event.
Position(call) ==
    IF threads.handler = None THEN 1
    ELSE IF threads.handler[1].call = call THEN threads.handler[1].next
    ELSE 0

\* Whether the call's channel had no entry in the index when its event arrived.
Unseen(call) ==
    IF threads.handler = None THEN call.channel_id \notin DOMAIN active_call_records
    ELSE threads.handler[1].unseen

\* on_call_create for a ringing call: the next stage of _handle_call_event.
HandleCallEvent(call, popen_raises) ==
    LET k == Position(call)
    IN  /\ k > 0
        /\ k = 1 => events < MaxRings
        /\ Commit(HandleStage(Self, Stages[k], call, "create", args, now, popen_raises))
        /\ threads' = [threads EXCEPT !.handler =
                          IF k = Len(Stages) THEN None
                          ELSE Some([call |-> call, next |-> k + 1, unseen |-> Unseen(call)])]
        /\ events' = IF k = 1 THEN events + 1 ELSE events
        /\ call_phase' = IF k = 1 THEN PhaseOnCreate(call_phase, call) ELSE call_phase
        /\ UNCHANGED <<args, now, ret, menu, jump, console, voices>>

OnRing == \E call \in RingCalls, popen_raises \in BOOLEAN : HandleCallEvent(call, popen_raises)

\* on_call_delete, handled when the event loop is free.
OnEnd ==
    \E call \in EndCalls :
        /\ threads.handler = None
        /\ events < MaxRings
        /\ Deleted(call)

RenderAt(pc, exp) == threads' = [threads EXCEPT !.render = pc, !.exp = exp]

\* _current_notice returns to the render loop.
RenderReturns ==
    threads' = [threads EXCEPT !.render = "idle", !.exp = None, !.read_at = Some(now)]

\* if not self._active_notice: return None
RenderTest ==
    /\ threads.render = "idle"
    /\ IF active_notice = None
       THEN ret' = None /\ RenderReturns
       ELSE ret' = ret /\ RenderAt("get", None)
    /\ Commit(Self)
    /\ UNCHANGED <<args, now, call_phase, events, menu, jump, console, voices>>

\* exp = self._active_notice.get("expires_at")
RenderGet ==
    /\ threads.render = "get"
    /\ RenderAt("check", active_notice[1].expires_at)
    /\ Commit(Self)
    /\ UNCHANGED <<args, now, ret, call_phase, events, menu, jump, console, voices>>

\* if exp is not None and time.monotonic() > exp:
RenderCheck ==
    /\ threads.render = "check"
    /\ IF threads.exp # None /\ now > threads.exp[1]
       THEN RenderAt("clear", None)
       ELSE RenderAt("message", None)
    /\ Commit(Self)
    /\ UNCHANGED <<args, now, ret, call_phase, events, menu, jump, console, voices>>

\* self._active_notice = None; return None
RenderClear ==
    /\ threads.render = "clear"
    /\ Commit([Self EXCEPT !.active_notice = None])
    /\ ret' = None
    /\ RenderReturns
    /\ UNCHANGED <<args, now, call_phase, events, menu, jump, console, voices>>

\* return str(self._active_notice.get("message") or "")
RenderMessage ==
    /\ threads.render = "message"
    /\ Commit(Self)
    /\ ret' = Some(active_notice[1].message)
    /\ RenderReturns
    /\ UNCHANGED <<args, now, call_phase, events, menu, jump, console, voices>>

NextThreads ==
    \/ OnRing
    \/ OnEnd
    \/ RenderTest
    \/ RenderGet
    \/ RenderCheck
    \/ RenderClear
    \/ RenderMessage
    \/ Tick

SpecThreads == InitThreads /\ [][NextThreads]_vars

\* C25: the reader's clear discards only an expired notification: a
\* notification pushed while the reader stands between its expiry check and
\* its clear is not lost, so what the clear removes is past its expiry.
C25_ClearDiscardsOnlyExpired ==
    [][RenderClear =>
          /\ active_notice # None
          /\ active_notice[1].expires_at # None
          /\ now > active_notice[1].expires_at[1]]_vars

\* This step ran the named stage of _handle_call_event for a call whose
\* channel had no index entry when its event arrived.
StageRan(call, name) ==
    /\ Position(call) > 0
    /\ Unseen(call)
    /\ Stages[Position(call)] = name
    /\ \E popen_raises \in BOOLEAN : HandleCallEvent(call, popen_raises)

\* The front of the history is the call's record, ringing, and the index
\* entry of its channel refers to it.
RingingAtFront(history, records, call) ==
    /\ Len(history) > 0
    /\ history[1].channel_id = call.channel_id
    /\ history[1].status = "ringing"
    /\ ~history[1].answered
    /\ ~history[1].missed
    /\ call.channel_id \in DOMAIN records
    /\ records[call.channel_id] = 0

\* The lines this step handed to the debug log.
LinesAppended == SubSeq(appended', Len(appended) + 1, Len(appended'))

EventLine(call) == <<"call", "create", IncomingMsg(call)>>

\* What the stages of a ring of a fresh call do, but for the debug log: the
\* record is created at the front before anything else changes; the notice is
\* pushed onto a history that already holds the record; the record is still at
\* the front when the handler returns.
RingStages(call) ==
    /\ StageRan(call, "record") =>
           /\ RingingAtFront(call_history', active_call_records', call)
           /\ call_history'[1].id = created + 1
           /\ Len(call_history') = Len(call_history) + 1
           /\ active_notice' = active_notice
           /\ appended' = appended
    /\ StageRan(call, "push") =>
           /\ RingingAtFront(call_history, active_call_records, call)
           /\ call_history' = call_history
           /\ active_call_records' = active_call_records
           /\ active_notice' =
                  Some([message |-> IncomingMsg(call),
                        expires_at |-> IF args.call_notify_persistent THEN None
                                       ELSE Some(now + Max(0, args.call_notify_seconds))])
           /\ appended' = appended
    /\ StageRan(call, "finish") =>
           /\ RingingAtFront(call_history', active_call_records', call)
           /\ call_history' = call_history

\* C28 as stated: a RingingToMe event of a fresh call leaves its record
\* {ringing, not answered, not missed} at the front of the history with index
\* entry 0, replaces the notification by the incoming-call message after the
\* record is inserted, and appends one line to the debug log.
C28_RingAppendsOneLine ==
    [][\A call \in RingCalls :
          /\ RingStages(call)
          /\ StageRan(call, "finish") => LinesAppended = <<EventLine(call)>>]_vars

\* C28, amended: as above, but the event's line is the last line appended and
\* the only one unless a notify command is configured and cannot be started,
\* in which case the line "call notify cmd failed" precedes it.
C28_RingAppendsItsLineLast ==
    [][\A call \in RingCalls :
          /\ RingStages(call)
          /\ StageRan(call, "finish") =>
                 \/ LinesAppended = <<EventLine(call)>>
                 \/ /\ args.call_notify_cmd
                    /\ LinesAppended = << <<"call notify cmd failed">>, EventLine(call) >>]_vars

\* The first call rang and its notify command could not be started: two
\* lines were logged, its record is ringing and nothing has been read yet.
C28_NotifyCommandFailed ==
    /\ threads # None
    /\ threads.handler = None
    /\ created = 1
    /\ Len(appended) = 2
    /\ appended[1] = <<"call notify cmd failed">>
    /\ call_history[1].status = "ringing"
    /\ active_notice # None
    /\ active_notice[1].message[1] = "Incoming call"

-----------------------------------------------------------------------------
(* Persistent notifications (--call-notify-persistent): the same two        *)
(* threads, with a command line that makes every notification persistent    *)
(* and a duration of zero, so that any expiry a push computed would be past *)
(* as soon as the clock advances.                                           *)

PersistentArgs ==
    [call_notify_persistent |-> TRUE, call_notify_seconds |-> 0, call_notify_cmd |-> FALSE]

InitPersistent ==
    /\ args = PersistentArgs
    /\ Holds(Construct)
    /\ now = 0
    /\ ret = None
    /\ call_phase = [c \in Channels |-> "none"]
    /\ events = 0
    /\ menu = None
    /\ jump = None
    /\ console = None
    /\ voices = NoVoices
    /\ threads = Idle

\* The statements of the two threads that a persistent notification lets
\* run: the assignment self._active_notice = None of _current_notice is
\* reached only from threads.render = "clear", which C31 shows unreachable.
NextPersistent ==
    \/ OnRing
    \/ OnEnd
    \/ RenderTest
    \/ RenderGet
    \/ RenderCheck
    \/ RenderMessage
    \/ Tick

SpecPersistent == InitPersistent /\ [][NextPersistent]_vars

\* This step is the call of _push_notice that _handle_call_event makes for
\* this call, rung for the first time or again.
PushRan(call) ==
    /\ Position(call) > 0
    /\ Stages[Position(call)] = "push"
    /\ HandleCallEvent(call, FALSE)

\* A call of _current_notice that found a notification stored returns.
ReadReturns == threads.render # "idle" /\ threads'.render = "idle"

\* C31: a notification pushed as persistent has no expiry; every read that
\* finds it returns the stored message however late the clock, and never
\* clears it: the reader never reaches its clearing statement, the slot is
\* never emptied once filled, and what is stored changes only by a push of
\* the event loop (an incoming or a missed call).
C31_PersistentNeverExpires ==
    /\ [](active_notice # None => active_notice[1].expires_at = None)
    /\ [](threads.render # "clear")
    /\ [][/\ active_notice # None => active_notice' # None
          /\ ReadReturns =>
                 /\ active_notice' = active_notice
                 /\ ret' = Some(active_notice[1].message)
          /\ active_notice' # active_notice =>
                 /\ threads'.render = threads.render
                 /\ \/ \E call \in RingCalls : PushRan(call)
                    \/ \E i \in 1..Len(call_history) : NewlyMissed(i)]_vars

\* A read made after the clock advanced returned the persistent missed-call
\* notification, which is still stored.
C31_ReadLongAfterPush ==
    /\ threads # None
    /\ args.call_notify_persistent
    /\ now > 0
    /\ threads.render = "idle"
    /\ threads.read_at = Some(now)
    /\ active_notice # None
    /\ active_notice[1].message[1] = "Missed call"
    /\ ret = Some(active_notice[1].message)

-----------------------------------------------------------------------------
(* The console (_ctui_main) and the event loop.  The console thread hands   *)
(* every session-control action to the event loop with                      *)
(*   run(coro) = asyncio.run_coroutine_threadsafe(coro, loop).result()      *)
(* and blocks until the coroutine is done.  The event loop runs one         *)
(* coroutine at a time up to its next await, so a coroutine is cut at its   *)
(* awaits; in between it delivers call events.  A modal message             *)
(* (_curses_message) is on the screen until the next menu is entered.       *)

MaxActions == 4
MaxDelivered == 1
MaxSends == 1

\* The user whose DM call the console connects to.
Peer == 5

Connects == {"connect"}
\* Restart playback, Send VIDEO opcode, DAVE status: the entries of the
\* connected menu whose coroutine leaves the loops and the session alone (Toggle
\* self camera and Send fake video packet are handled the same way).
Plain == {"restart_playback", "send_video", "dave_status"}
Toggles == {"toggle_video", "toggle_fake"}
Leaves == {"disconnect", "quit"}
\* Quick jump (Ctrl+K or its entry) and Join/Accept DM call: the session is
\* left as by Disconnect, then _ctui_quick_jump or _ctui_quick_dm_call shows
\* its selection of targets.
Switches == {"quick_jump", "join_dm"}

\* Mutant: cancel() leaves the task running.
Cancel_none(t, handle) == t

\* task.cancel(): the task is woken with CancelledError at its await, its
\* except clause ends it, and it repeats no more.
Cancel(t, handle) == [t EXCEPT !.live = {x \in @ : x.id # handle[1]}]

\* asyncio.create_task(_loop())
CreateTask(t, kind) ==
    [spawned |-> t.spawned + 1,
     live |-> t.live \cup {[id |-> t.spawned + 1, kind |-> kind]}]

_toggle_video_opcode_loop(s, t) ==
    IF s.video_loop_task # None
    THEN [self |-> _video_probe_event(
                       [s EXCEPT !.tasks = Cancel(@, s.video_loop_task),
                                 !.video_loop_task = None],
                       t, <<"stopped VIDEO opcode loop">>),
          ret |-> FALSE]
    ELSE [self |-> _video_probe_event(
                       [s EXCEPT !.tasks = CreateTask(@, "video"),
                                 !.video_loop_task = Some(s.tasks.spawned + 1)],
                       t, <<"started VIDEO opcode loop">>),
          ret |-> TRUE]

_toggle_fake_video_loop(s, t) ==
    IF s.fake_video_loop_task # None
    THEN [self |-> _video_probe_event(
                       [s EXCEPT !.tasks = Cancel(@, s.fake_video_loop_task),
                                 !.fake_video_loop_task = None],
                       t, <<"stopped fake video RTP loop">>),
          ret |-> FALSE]
    ELSE [self |-> _video_probe_event(
                       [s EXCEPT !.tasks = CreateTask(@, "fake"),
                                 !.fake_video_loop_task = Some(s.tasks.spawned + 1)],
                       t, <<"started fake video RTP loop">>),
          ret |-> TRUE]

\* Mutant: the fake video loop is left alone.
_disconnect_voice_keep_fake(s) ==
    IF s.video_loop_task # None
    THEN [s EXCEPT !.tasks = Cancel(@, s.video_loop_task), !.video_loop_task = None]
    ELSE s

\* _disconnect_voice up to voice.is_playing(): both loops are cancelled and
\* their handles cleared.
_disconnect_voice(s) ==
    LET s1 == IF s.video_loop_task # None
              THEN [s EXCEPT !.tasks = Cancel(@, s.video_loop_task), !.video_loop_task = None]
              ELSE s
    IN  IF s1.fake_video_loop_task # None
        THEN [s1 EXCEPT !.tasks = Cancel(@, s1.fake_video_loop_task),
                        !.fake_video_loop_task = None]
        ELSE s1

\* The debug line restart playback and the DAVE status query write when they
\* succeed.
DoneLine(action) == <<"done", action>>

\* Mutant: the event loop waits for the console thread, as it would had the
\* console kept a lock of the loop's handlers while blocked in result().
LoopFree_console_lock(c) == c.pending = None

\* Nothing the event loop does waits for the console thread: run() holds no
\* lock while it is blocked in result().
LoopFree(c) == TRUE

\* voice = None; label = ""; the main menu is about to be shown.  selecting
\* holds, while a selection of targets is shown from the connected menu, the
\* entry that led to it, the session left for it and whether its disconnect
\* returned.
AtMenu ==
    [running |-> TRUE, voice |-> None, label |-> << >>, message |-> None,
     pending |-> None, submitted |-> 0, selecting |-> None]

\* Mutant: the session handle is not dropped.
Dropped_kept(c) == c

\* voice = None; label = ""
Dropped(c) == [c EXCEPT !.voice = None, !.label = << >>]

InitConsole ==
    /\ args = AgedArgs
    /\ Holds(Construct)
    /\ now = 0
    /\ ret = None
    /\ call_phase = [c \in Channels |-> "none"]
    /\ events = 0
    /\ menu = None
    /\ jump = None
    /\ threads = None
    /\ voices = NoVoices
    /\ console = AtMenu

Pending == console.pending[1]

Blocked == console # None /\ console.pending # None

Done(p, ok, value) ==
    Some([p EXCEPT !.stage = "done", !.outcome = Some([ok |-> ok, value |-> value])])

\* A menu entry is chosen: run(coro) hands the coroutine to the event loop and
\* the console thread blocks in result().
Submit(action) ==
    /\ console.running
    /\ console.pending = None
    /\ console.submitted < MaxActions
    /\ action \in IF console.selecting # None \/ console.voice = None THEN Connects
                   ELSE Plain \cup Toggles \cup Leaves \cup Switches
    /\ console' = [console EXCEPT
                      !.pending = Some([action |-> action, stage |-> "queued",
                                        outcome |-> None, seen |-> events]),
                      !.message = None,
                      !.submitted = @ + 1]
    /\ Commit(Self)
    /\ UNCHANGED <<args, now, ret, call_phase, events, menu, jump, threads, voices>>

Choose ==
    \E action \in Connects \cup Plain \cup Toggles \cup Leaves \cup Switches : Submit(action)

\* The selection of targets returns None: Back was chosen, or there was no
\* target to show and a message said so.
SelectNone ==
    \E empty \in BOOLEAN :
        /\ console.running
        /\ console.pending = None
        /\ console.selecting # None
        /\ console' = [console EXCEPT !.selecting = None,
                                      !.message = IF empty THEN Some(<<"No targets">>) ELSE None]
        /\ Commit(Self)
        /\ UNCHANGED <<args, now, ret, call_phase, events, menu, jump, threads, voices>>

\* Quit, chosen in the main menu: _ctui_main returns.
QuitMain ==
    /\ console.running
    /\ console.pending = None
    /\ console.voice = None
    /\ console.selecting = None
    /\ console' = [console EXCEPT !.running = FALSE, !.message = None]
    /\ Commit(Self)
    /\ UNCHANGED <<args, now, ret, call_phase, events, menu, jump, threads, voices>>

\* The event loop runs the coroutine up to its first await.  The toggles have
\* none and return; _disconnect_voice cancels the loops, and voice.is_playing()
\* or voice.stop() may raise before voice.disconnect is awaited.
Start(raises) ==
    /\ Blocked
    /\ Pending.stage = "queued"
    /\ LoopFree(console)
    /\ \/ /\ Pending.action = "toggle_video"
          /\ ~raises
          /\ LET r == _toggle_video_opcode_loop(Self, now)
             IN  /\ Commit(r.self)
                 /\ console' = [console EXCEPT !.pending = Done(Pending, TRUE, r.ret)]
       \/ /\ Pending.action = "toggle_fake"
          /\ ~raises
          /\ LET r == _toggle_fake_video_loop(Self, now)
             IN  /\ Commit(r.self)
                 /\ console' = [console EXCEPT !.pending = Done(Pending, TRUE, r.ret)]
       \/ /\ Pending.action \in Leaves \cup Switches
          /\ Commit(_disconnect_voice(Self))
          /\ console' = [console EXCEPT !.pending =
                            IF raises THEN Done(Pending, FALSE, None)
                            ELSE Some([Pending EXCEPT !.stage = "awaiting"])]
       \/ /\ Pending.action \in Connects \cup Plain
          /\ ~raises
          /\ Commit(Self)
          /\ console' = [console EXCEPT !.pending = Some([Pending EXCEPT !.stage = "awaiting"])]
    /\ UNCHANGED <<args, now, ret, call_phase, events, menu, jump, threads, voices>>

Starts == \E raises \in BOOLEAN : Start(raises)

\* What an awaited call of the library comes to: it returns; it raises with
\* nothing done; or it raises after the connection was made (unmade).
Outcomes == {"ok", "error", "late"}

\* The awaited calls of the coroutine come back and it runs to its end.
Finish(outcome) ==
    /\ Blocked
    /\ Pending.stage = "awaiting"
    /\ LoopFree(console)
    /\ \/ /\ Pending.action \in Connects
          /\ Commit(_open_dm_connection_by_id(Self, Peer, outcome = "ok", now))
          /\ voices' = IF outcome = "error" THEN voices
                       ELSE [opened |-> voices.opened + 1,
                             connected |-> voices.connected \cup {voices.opened + 1}]
          /\ console' = [console EXCEPT !.pending =
                            IF outcome = "ok"
                            THEN Done(Pending, TRUE, Some([voice |-> voices.opened + 1,
                                                           label |-> <<"DM", Peer>>]))
                            ELSE Done(Pending, FALSE, None)]
       \/ /\ Pending.action \in Plain
          /\ outcome # "late"
          /\ Commit(IF outcome # "ok" THEN Self
                    ELSE IF Pending.action = "send_video" THEN _exp_send_video_opcode(Self, now)
                    ELSE _dbg(Self, now, DoneLine(Pending.action)))
          /\ voices' = voices
          /\ console' = [console EXCEPT !.pending = Done(Pending, outcome = "ok", None)]
       \/ /\ Pending.action \in Leaves \cup Switches
          /\ Commit(Self)
          /\ voices' = IF outcome = "error" THEN voices
                       ELSE [voices EXCEPT !.connected = @ \ {console.voice[1]}]
          /\ console' = [console EXCEPT !.pending = Done(Pending, outcome = "ok", None)]
    /\ UNCHANGED <<args, now, ret, call_phase, events, menu, jump, threads>>

Finishes == \E outcome \in Outcomes : Finish(outcome)

\* The modal message of a plain action or a toggle that returned.
Success(p) ==
    IF p.action \in Toggles
    THEN <<p.action, IF p.outcome[1].value THEN "ON" ELSE "OFF">>
    ELSE <<p.action, "ok">>

\* result() returns or raises in the console thread, and the menu handler
\* goes on: the try/except around run(...) of every menu entry.
Receive ==
    /\ Blocked
    /\ Pending.stage = "done"
    /\ LET p == Pending
           ok == p.outcome[1].ok
       IN  console' =
               IF p.action \in Connects
               THEN IF ok
                    THEN [console EXCEPT !.pending = None,
                                         !.selecting = None,
                                         !.voice = Some(p.outcome[1].value[1].voice),
                                         !.label = p.outcome[1].value[1].label]
                    ELSE [console EXCEPT !.pending = None, !.selecting = None,
                                         !.message = Some(<<"Error">>)]
               ELSE IF p.action \in Plain \cup Toggles
               THEN [console EXCEPT !.pending = None,
                                    !.message = IF ok THEN Some(Success(p))
                                                ELSE Some(<<"Error">>)]
               ELSE IF p.action \in Switches
               THEN [Dropped(console) EXCEPT
                        !.pending = None,
                        !.selecting = Some([action |-> p.action, left |-> console.voice[1],
                                            ok |-> ok])]
               ELSE IF p.action = "disconnect"
               THEN [Dropped(console) EXCEPT !.pending = None]
               ELSE [Dropped(console) EXCEPT !.pending = None, !.running = FALSE]
    /\ Commit(Self)
    /\ UNCHANGED <<args, now, ret, call_phase, events, menu, jump, threads, voices>>

\* A call rings while the console runs: on_call_create on the event loop.
Deliver ==
    /\ LoopFree(console)
    /\ events < MaxDelivered
    /\ \E call \in RingCalls : Created(call, FALSE)

\* The body of a loop task raises (the voice websocket is gone): the task
\* ends with the exception and its handle stays where it is.
TaskDies ==
    /\ LoopFree(console)
    /\ \E task \in tasks.live :
           Commit([Self EXCEPT !.tasks.live = @ \ {task}])
    /\ UNCHANGED <<args, now, ret, call_phase, events, menu, jump, console, threads, voices>>

\* The sends counted so far.
Sent(s) ==
    s.video_probe_counts["video_opcode_sent_calls"]
        + s.video_probe_counts["fake_video_packet_sent_calls"]

\* An iteration of a loop task: its send returns and the task sleeps again.
TaskSends ==
    /\ LoopFree(console)
    /\ Sent(Self) < MaxSends
    /\ \E task \in tasks.live :
           Commit(IF task.kind = "video" THEN _exp_send_video_opcode(Self, now)
                  ELSE _exp_send_fake_video_packet(Self, now))
    /\ UNCHANGED <<args, now, ret, call_phase, events, menu, jump, console, threads, voices>>

NextConsole ==
    \/ Choose
    \/ SelectNone
    \/ QuitMain
    \/ Starts
    \/ Finishes
    \/ Receive
    \/ Deliver
    \/ TaskDies

SpecConsole == InitConsole /\ [][NextConsole]_vars

-----------------------------------------------------------------------------
(* Properties of the console and the event loop *)

\* result() raised in this step for a menu entry other than Quit.
Failed ==
    /\ Receive
    /\ ~Pending.outcome[1].ok
    /\ Pending.action # "quit"

\* C21: a session-control action that raises is caught by the console, shown
\* as a modal message, and leaves the console running in the macro-state it
\* was in: disconnected, or connected with the same session handle.
C21_FailedActionShownAndStateKept ==
    [][Failed =>
          /\ console'.running
          /\ console'.message = Some(<<"Error">>)
          /\ console'.voice = console.voice
          /\ console'.label = console.label]_vars

\* The session the console holds is disconnected in this step.
Released == console.voice # None /\ console.voice[1] \in voices.connected \ voices'.connected

NoLoops ==
    /\ video_loop_task = None
    /\ fake_video_loop_task = None
    /\ tasks.live = {}

\* C22: when the console leaves the connected state both loops have been
\* cancelled and their handles cleared before the session is disconnected,
\* and no loop task is running while the console holds no session.
C22_LoopsCancelledBeforeRelease ==
    /\ [](console.voice = None => NoLoops)
    /\ [][Released => NoLoops]_vars

\* Both loops were started and the console then disconnected: it is back in
\* the main menu, the session is closed and no task is left.
C22_LeftWithBothLoopsOn ==
    /\ console # None
    /\ console.running
    /\ console.voice = None
    /\ console.pending = None
    /\ tasks.spawned = 2
    /\ voices.opened = 1
    /\ voices.connected = {}

LoopKinds == {"video", "fake"}

HandleOf(kind) == IF kind = "video" THEN video_loop_task ELSE fake_video_loop_task

TasksOf(t, kind) == {x \in t.live : x.kind = kind}

\* The event loop ran the toggle of this kind of loop in this step.
Toggled(kind) ==
    /\ Blocked
    /\ Pending.stage = "queued"
    /\ Pending.action = (IF kind = "video" THEN "toggle_video" ELSE "toggle_fake")
    /\ Start(FALSE)

\* C23: a toggle with no handle held starts exactly one fresh task, holds
\* it and returns ON; a toggle with a handle held cancels, clears the handle,
\* leaves no task of the kind and returns OFF; there are never two tasks of a
\* kind, and a running task is the one whose handle is held.
C23_ToggleAlternates ==
    /\ [](\A kind \in LoopKinds :
             /\ Cardinality(TasksOf(tasks, kind)) <= 1
             /\ \A x \in TasksOf(tasks, kind) : HandleOf(kind) = Some(x.id))
    /\ [][\A kind \in LoopKinds :
             Toggled(kind) =>
                 IF HandleOf(kind) = None
                 THEN /\ tasks'.spawned = tasks.spawned + 1
                      /\ tasks'.live = tasks.live \cup {[id |-> tasks'.spawned, kind |-> kind]}
                      /\ HandleOf(kind)' = Some(tasks'.spawned)
                      /\ console'.pending[1].outcome[1].value = TRUE
                 ELSE /\ tasks'.spawned = tasks.spawned
                      /\ TasksOf(tasks', kind) = {}
                      /\ HandleOf(kind)' = None
                      /\ console'.pending[1].outcome[1].value = FALSE]_vars

\* The VIDEO opcode loop was switched on, off and on again: its second task
\* is the only one running.
C23_OnOffOn ==
    /\ tasks.spawned = 2
    /\ tasks.live = {[id |-> 2, kind |-> "video"]}
    /\ video_loop_task = Some(2)
    /\ fake_video_loop_task = None

\* The event loop runs what is ready (a coroutine handed over, a coroutine
\* whose awaited call came back), the awaited calls of the library come back
\* (they return, raise or time out), and a thread blocked in result() is woken
\* once the future is done.
\* One menu entry of each shape: a connection, a coroutine that awaits the
\* library, one that does not, and the disconnection.
Handoffs == {"connect", "send_video", "toggle_video", "disconnect"}

ChooseHandoff == \E action \in Handoffs : Submit(action)

NextHandoff ==
    \/ ChooseHandoff
    \/ Starts
    \/ Finishes
    \/ Receive
    \/ Deliver
    \/ TaskDies

SpecHandoff ==
    /\ InitConsole
    /\ [][NextHandoff]_vars
    /\ WF_vars(Starts)
    /\ WF_vars(Finishes)
    /\ WF_vars(Receive)

\* The console's locals but for the action handed over.
Locals(c) == [c EXCEPT !.pending = None]

-----------------------------------------------------------------------------
(* Switching targets from the connected menu *)

\* The session handles the console thread holds: its local voice, and the
\* one a connect has returned to it and it has not stored yet.
HandlesHeld(c) ==
    {c.voice[k] : k \in 1..Len(c.voice)} \cup
    (IF /\ c.pending # None
        /\ c.pending[1].action \in Connects
        /\ c.pending[1].outcome # None
        /\ c.pending[1].outcome[1].ok
     THEN {c.pending[1].outcome[1].value[1].voice}
     ELSE {})

C40_NoSessionLeftBehind ==
    (console.voice = None /\ console.pending = None) => voices.connected = {}

-----------------------------------------------------------------------------
(* The background loops: the console's entries that start and stop them,    *)
(* and the loop tasks themselves, whose body sends and sleeps until it is    *)
(* cancelled or its send raises.                                            *)

LoopEntries == {"connect", "toggle_video", "toggle_fake", "disconnect"}

ChooseLoopEntry == \E action \in LoopEntries : Submit(action)

NextLoops ==
    \/ ChooseLoopEntry
    \/ Starts
    \/ Finishes
    \/ Receive
    \/ TaskSends
    \/ TaskDies

SpecLoops == InitConsole /\ [][NextLoops]_vars

\* A repeating task of this kind is running, and it is the one the handle
\* refers to.
Running(kind) == \E x \in TasksOf(tasks, kind) : HandleOf(kind) = Some(x.id)

\* C39: for each kind of loop the handle is held if and only if a task of
\* that kind is repeating, also after an iteration of its body has raised;
\* and the value a toggle returns says whether the loop runs afterwards.
C39_HandleReflectsLoop ==
    /\ [](\A kind \in LoopKinds : HandleOf(kind) # None <=> Running(kind))
    /\ [][\A kind \in LoopKinds :
             Toggled(kind) => (console'.pending[1].outcome[1].value <=> Running(kind)')]_vars

-----------------------------------------------------------------------------
(* The feature probe after long use: every handler that counts or writes a  *)
(* probe line, from a state in which the hook has seen ProbeCap - 2 VIDEO    *)
(* messages.                                                                *)

MaxProbes == 3

\* The object after the voice websocket delivered VIDEO messages lo .. hi.
RECURSIVE HookedRange(_, _, _)
HookedRange(s, lo, hi) ==
    IF lo > hi THEN s
    ELSE IF lo = hi THEN _voice_ws_hook(s, 12, 0, FALSE)
    ELSE LET mid == (lo + hi) \div 2
             half == HookedRange(s, lo, mid)
         IN  IF half.created >= 0 THEN HookedRange(half, mid + 1, hi) ELSE half

ProbeAged == HookedRange(Construct, 1, ProbeCap - 2)

InitProbe ==
    /\ args = AgedArgs
    /\ Holds(ProbeAged)
    /\ now = 0
    /\ ret = None
    /\ call_phase = [c \in Channels |-> "none"]
    /\ events = 0
    /\ menu = None
    /\ jump = None
    /\ console = None
    /\ voices = NoVoices
    /\ threads = None

\* One more event reaches a handler of the probe.
Probe(s) ==
    /\ events < MaxProbes
    /\ Commit(s)
    /\ events' = events + 1
    /\ UNCHANGED <<args, now, ret, call_phase, menu, jump, console, threads, voices>>

VoiceWsHook ==
    \E op \in WsOps, raises \in BOOLEAN : Probe(_voice_ws_hook(Self, op, now, raises))

OnVoiceStateUpdate ==
    \E video_changed \in BOOLEAN, stream_changed \in BOOLEAN :
        Probe(on_voice_state_update(Self, video_changed, stream_changed, now))

ApplySelfVideoFlag == Probe(_apply_self_video_flag(Self, now))

ExpSendVideoOpcode == Probe(_exp_send_video_opcode(Self, now))

ExpSendFakeVideoPacket == Probe(_exp_send_fake_video_packet(Self, now))

ToggleVideoOpcodeLoop == Probe(_toggle_video_opcode_loop(Self, now).self)

ToggleFakeVideoLoop == Probe(_toggle_fake_video_loop(Self, now).self)

NextProbe ==
    \/ VoiceWsHook
    \/ OnVoiceStateUpdate
    \/ ApplySelfVideoFlag
    \/ ExpSendVideoOpcode
    \/ ExpSendFakeVideoPacket
    \/ ToggleVideoOpcodeLoop
    \/ ToggleFakeVideoLoop

SpecProbe == InitProbe /\ [][NextProbe]_vars

\* The probe lines this step wrote.
ProbedNow == SubSeq(probed', Len(probed) + 1, Len(probed'))

\* The counter a probe line belongs to; the lines of the loop toggles
\* belong to none.
KindOf(line) ==
    IF line = <<"voice_ws", 2>> THEN "voice_ws_op_2_ready"
    ELSE IF line = <<"voice_ws", 11>> THEN "voice_ws_op_11_clients_connect"
    ELSE IF line = <<"voice_ws", 12>> THEN "voice_ws_op_12_video"
    ELSE IF line = <<"voice_ws", 13>> THEN "voice_ws_op_13_client_disconnect"
    ELSE IF line = <<"voice_state video">> THEN "voice_state_video_toggles"
    ELSE IF line = <<"voice_state stream">> THEN "voice_state_stream_toggles"
    ELSE IF line = <<"set self_video">> THEN "self_video_set_calls"
    ELSE IF line = <<"sent VOICE VIDEO opcode">> THEN "video_opcode_sent_calls"
    ELSE IF line = <<"sent fake video RTP">> THEN "fake_video_packet_sent_calls"
    ELSE "none"

\* This step is the hook's handling of a message with this opcode.
Hooked(op) == \E raises \in BOOLEAN : Self' = _voice_ws_hook(Self, op, now, raises)

\* C33: the probe's log never holds more than 120 lines and holds the most
\* recent ones in arrival order, whatever the main log holds; a counter goes up
\* by one for each probe event of its own kind written in a step and by
\* nothing else, so no counter ever goes down; a voice websocket message with
\* opcode 2, 11, 12 or 13 raises its own counter by one and no other, and a
\* message with another opcode changes no counter.
C33_ProbeCappedAndCounted ==
    /\ [](/\ Len(video_probe_events) <= ProbeCap
          /\ video_probe_events = Newest(probed, Min(Len(probed), ProbeCap)))
    /\ [][/\ \A k \in Counters :
                 video_probe_counts'[k] =
                     video_probe_counts[k]
                       + Cardinality({i \in 1..Len(ProbedNow) : KindOf(ProbedNow[i]) = k})
          /\ \A op \in WsOps :
                 Hooked(op) =>
                     /\ video_probe_counts' =
                            IF KindOf(<<"voice_ws", op>>) = "none" THEN video_probe_counts
                            ELSE [video_probe_counts EXCEPT ![KindOf(<<"voice_ws", op>>)] = @ + 1]
                     /\ ProbedNow = IF op \in {2, 11, 12, 13} THEN << <<"voice_ws", op>> >>
                                    ELSE << >>]_vars

\* The probe's log is full and has dropped its oldest lines, the last event
\* was a CLIENT_DISCONNECT message, and the main log, far from its own cap,
\* holds every line written.
C33_ProbeOverflowed ==
    /\ Len(probed) > ProbeCap
    /\ Len(video_probe_events) = ProbeCap
    /\ probed[Len(probed)] = <<"voice_ws", 13>>
    /\ video_probe_counts["voice_ws_op_13_client_disconnect"] > 0
    /\ Len(debug_lines) = Len(appended)
    /\ Len(debug_lines) > ProbeCap

====
